---- MODULE Spec2Model ----
(***************************************************************************)
(* Lifecycle controller of the kind_cluster resource                       *)
(* (internal/provider/cluster_resource.go): Create / Read / Update /       *)
(* Delete against the kind backend, the credential-bundle extraction       *)
(* (populateComputedValues), the stale-lock cleanup and the node           *)
(* readiness wait.  The Terraform framework that drives the handlers is    *)
(* modelled only at its boundary: which handler it calls for a plan and    *)
(* what it keeps as the resource's state from a handler's response.        *)
(***************************************************************************)
EXTENDS Integers, Sequences, FiniteSets, TLC

(* ---------------------------------------------------------------------- *)
(* Bounds and program constants                                            *)
(* ---------------------------------------------------------------------- *)

\* largest wait_for_ready value (seconds) the configurations use
MaxWait == 12

\* ticker period of waitForAllNodesReady, seconds
PollInterval == 5

\* age (seconds) above which the kubeconfig lock file is stale
StaleAfter == 60

\* cluster names (identities)
Names == {"a", "b"}

\* types.String / types.Int64 / types.Bool values that are not known values
Null == "<null>"
Unknown == "<unknown>"

\* a value of a YAML node that is not a string
NonString == "<non-string>"

\* tracked state / response state of a resource that does not exist
NoState == [exists |-> FALSE]

\* backend inventory entry of a name that has no cluster
NoCluster == "<no cluster>"

\* no error returned by a call
NoErr == "<nil>"

(* ---------------------------------------------------------------------- *)
(* Credential bundles (kubeconfig texts) and their YAML structure          *)
(* ---------------------------------------------------------------------- *)

\* the kubeconfig texts the backend can hand out
KubeconfigTexts ==
  {"kc-full-1", "kc-full-2", "kc-no-users", "kc-no-clusters",
   "kc-empty-lists", "kc-token-user", "kc-ca-not-string", "kc-not-yaml"}

\* yaml.Unmarshal([]byte(kubeconfig), &kubeconfigData): the parsed document,
\* a map from top-level keys to values, or an error for a text that is not YAML
ParseError == [yamlError |-> TRUE]

yamlUnmarshal(text) ==
  CASE text = "kc-full-1" ->
         [clusters |-> << [cluster |-> [server |-> "https://127.0.0.1:6443",
                                       ca |-> "CA1"]] >>,
          users    |-> << [user |-> [cert |-> "CERT1", key |-> "KEY1"]] >>]
    [] text = "kc-full-2" ->
         [clusters |-> << [cluster |-> [server |-> "https://127.0.0.1:7443",
                                       ca |-> "CA2"]] >>,
          users    |-> << [user |-> [cert |-> "CERT2", key |-> "KEY2"]] >>]
    [] text = "kc-no-users" ->
         [clusters |-> << [cluster |-> [server |-> "https://127.0.0.1:6443",
                                       ca |-> "CA1"]] >>]
    [] text = "kc-no-clusters" ->
         [users    |-> << [user |-> [cert |-> "CERT1", key |-> "KEY1"]] >>]
    [] text = "kc-empty-lists" ->
         [clusters |-> << >>, users |-> << >>]
    [] text = "kc-token-user" ->
         [clusters |-> << [cluster |-> [server |-> "https://127.0.0.1:6443",
                                       ca |-> "CA1"]] >>,
          users    |-> << [user |-> [token |-> "TOKEN"]] >>]
    [] text = "kc-ca-not-string" ->
         [clusters |-> << [cluster |-> [server |-> "https://127.0.0.1:6443",
                                       ca |-> NonString]] >>,
          users    |-> << [user |-> [cert |-> "CERT1", key |-> NonString]] >>]
    [] OTHER -> ParseError

\* doc[section][0][entry][field] when every step of that path exists and the
\* leaf is a string; Null otherwise (the chain of checked type assertions)
Extract(doc, section, entry, field) ==
  IF section \notin DOMAIN doc THEN Null
  ELSE IF Len(doc[section]) = 0 THEN Null
  ELSE IF entry \notin DOMAIN doc[section][1] THEN Null
  ELSE IF field \notin DOMAIN doc[section][1][entry] THEN Null
  ELSE IF doc[section][1][entry][field] = NonString THEN Null
  ELSE doc[section][1][entry][field]


(* ---------------------------------------------------------------------- *)
(* Stale-lock cleanup                                                      *)
(* ---------------------------------------------------------------------- *)

\* the lock file ~/.kube/config.lock: NoLock, or the age of the file in seconds
NoLock == -1
LockAges == {StaleAfter, StaleAfter + 1}

\* a cleanup that takes a file of exactly StaleAfter seconds for stale
cleanupStaleLockFile_early(lk, env) ==
  IF ~env.homeOk THEN lk
  ELSE IF lk = NoLock \/ ~env.statOk THEN lk
  ELSE IF lk >= StaleAfter
       THEN (IF env.removeOk THEN NoLock ELSE lk)
       ELSE lk

\* cleanupStaleLockFile(): the lock file it leaves behind.
\* env.homeOk: os.UserHomeDir succeeds; env.statOk: os.Stat succeeds on an
\* existing file; env.removeOk: os.Remove succeeds.
cleanupStaleLockFile(lk, env) ==
  IF ~env.homeOk THEN lk
  ELSE IF lk = NoLock \/ ~env.statOk THEN lk
  ELSE IF lk > StaleAfter
       THEN (IF env.removeOk THEN NoLock ELSE lk)
       ELSE lk

(* ---------------------------------------------------------------------- *)
(* Readiness wait                                                          *)
(* ---------------------------------------------------------------------- *)

WaitValues == {0, PollInterval, MaxWait}

\* the timeouts the wait is followed with step by step: one more that ends
\* between the entry and the first tick
GateTimeouts == WaitValues \cup {PollInterval - 2}
MaxPolls == MaxWait \div PollInterval

\* one poll of the node list: an error, or the listed nodes, each given as
\* "has a Ready condition with status True"
PollErr == [err |-> TRUE]
PollResults ==
  {PollErr} \cup {[nodes |-> l] : l \in {<< >>, <<TRUE>>, <<FALSE>>, <<TRUE, FALSE>>}}

\* the errors of the client set-up that precedes the loop
GateSetupErrs ==
  {"failed to create temp kubeconfig", "failed to write kubeconfig",
   "failed to close kubeconfig file", "failed to build kubeconfig",
   "failed to create kubernetes client"}

CtxErr == "context canceled"
TimeoutErr(timeout) ==
  "timeout waiting for nodes to be ready after " \o ToString(timeout) \o "s"

\* the moments (seconds after entry) at which the caller's context is cancelled;
\* a moment after the largest timeout means never
CancelTimes == {0, 3, PollInterval, MaxWait + 1}

\* the orders in which select may prefer channels that are ready together
SelectOrders ==
  {<<"ctx", "timeout", "tick">>, <<"ctx", "tick", "timeout">>,
   <<"timeout", "ctx", "tick">>, <<"timeout", "tick", "ctx">>,
   <<"tick", "ctx", "timeout">>, <<"tick", "timeout", "ctx">>}

GateEnvs ==
  [setup : GateSetupErrs \cup {NoErr},
   polls : [1..MaxPolls -> PollResults],
   cancelAt : CancelTimes,
   order : SelectOrders]

Max2(a, b) == IF a >= b THEN a ELSE b
Min3(a, b, c) == IF a <= b /\ a <= c THEN a ELSE IF b <= c THEN b ELSE c

\* an allReady that starts true and is never cleared by an empty list
AllNodesReady_vacuous(poll) ==
  /\ poll # PollErr
  /\ \A i \in 1..Len(poll.nodes) : poll.nodes[i]

\* allReady of one poll: the list is not empty and every node is ready
AllNodesReady(poll) ==
  /\ poll # PollErr
  /\ Len(poll.nodes) # 0
  /\ \A i \in 1..Len(poll.nodes) : poll.nodes[i]

\* the for/select loop: k is the number of the next tick, cur the time reached
RECURSIVE GateLoop(_, _, _, _)
GateLoop(genv, timeout, k, cur) ==
  LET tCtx  == Max2(genv.cancelAt, cur)
      tTime == Max2(timeout, cur)
      tTick == Max2(k * PollInterval, cur)
      t     == Min3(tCtx, tTime, tTick)
      ready == (IF tCtx = t THEN {"ctx"} ELSE {})
               \cup (IF tTime = t THEN {"timeout"} ELSE {})
               \cup (IF tTick = t THEN {"tick"} ELSE {})
      first == CHOOSE i \in 1..3 :
                 /\ genv.order[i] \in ready
                 /\ \A j \in 1..(i - 1) : genv.order[j] \notin ready
      chosen == genv.order[first]
  IN  IF chosen = "ctx" THEN CtxErr
      ELSE IF chosen = "timeout" THEN TimeoutErr(timeout)
      ELSE IF AllNodesReady(genv.polls[k]) THEN NoErr
      ELSE GateLoop(genv, timeout, k + 1, t)

\* waitForAllNodesReady(ctx, kubeconfigContent, timeout)
waitForAllNodesReady(genv, timeout) ==
  IF genv.setup # NoErr THEN genv.setup
  ELSE GateLoop(genv, timeout, 1, 0)

\* every result the wait can have for a timeout, over all environments
GateOutcomes ==
  [timeout \in GateTimeouts |->
     {waitForAllNodesReady(genv, timeout) : genv \in GateEnvs}]


(* ---------------------------------------------------------------------- *)
(* Resource model (ClusterResourceModel) and schema                        *)
(* ---------------------------------------------------------------------- *)

NodeImages == {"", "kindest/node:v1.31.2"}

\* the configurations a user can write: the arguments of the resource after
\* the schema defaults have been applied
Configs ==
  [node_image : NodeImages,
   wait_for_ready : WaitValues,
   wait_for_nodes_ready : {"true", "false"}]

ConfigAttrs == {"node_image", "wait_for_ready", "wait_for_nodes_ready"}

\* the attributes read from the credential bundle
BundleAttrs ==
  {"endpoint", "cluster_ca_certificate", "client_certificate", "client_key"}

\* the Computed attributes without a default
ComputedAttrs == {"id", "kubeconfig", "kubeconfig_path"} \cup BundleAttrs

\* a schema in which node_image lacks RequiresReplace()
RequiresReplace_nameOnly == {"name"}

\* the attributes whose plan modifiers include RequiresReplace()
RequiresReplace == {"name", "node_image"}

\* the attributes whose plan modifiers include UseStateForUnknown()
UseStateForUnknown == {"id"}

\* the plan Terraform hands to Create (prior = NoState) or Update: the
\* configuration, and every Computed attribute unknown unless it keeps the
\* prior state's value
PlanData(name, cfg, prior) ==
  [a \in {"name"} \cup ConfigAttrs \cup ComputedAttrs |->
     IF a = "name" THEN name
     ELSE IF a \in ConfigAttrs THEN cfg[a]
     ELSE IF a \in UseStateForUnknown /\ prior # NoState /\ prior[a] # Null
          THEN prior[a]
          ELSE Unknown]

\* the diff predicate: what Terraform does with a configuration for a resource
\* whose tracked state is prior
PlanAction(name, cfg, prior) ==
  LET plan == PlanData(name, cfg, prior)
      changed == {a \in {"name"} \cup ConfigAttrs : plan[a] # prior[a]}
  IN  IF prior = NoState THEN "create"
      ELSE IF changed \cap RequiresReplace # {} THEN "replace"
      ELSE IF changed # {} THEN "update"
      ELSE "noop"

\* what Terraform keeps of the state that resp.State.Set has stored after an
\* apply: a value left unknown is kept as null
StateAfterApply(st) ==
  IF st = NoState THEN NoState
  ELSE [a \in DOMAIN st |->
          IF a \in ComputedAttrs /\ st[a] = Unknown THEN Null ELSE st[a]]

(* ---------------------------------------------------------------------- *)
(* Diagnostics and the log of the calls an operation makes                 *)
(* ---------------------------------------------------------------------- *)

Diag(summary, detail) == [summary |-> summary, detail |-> detail]

HasError(diags) == Len(diags) > 0

\* errors the backend can return
CreateErrs == {"image not found", "docker daemon not running"}
AlreadyExists == "node(s) already exist for a cluster with the name"
KubeconfigErrs == {"failed to get cluster internal kubeconfig"}
NoNodesErr == "could not locate any control plane nodes"
ListErrs == {"failed to list clusters"}
DeleteErrs == {"failed to delete nodes"}
HomeErr == "$HOME is not defined"
YamlErr == "error converting YAML to JSON"

\* the inventory: the names that have a cluster
Inventory(bk) == {n \in Names : bk[n] # NoCluster}

KubeconfigPath(name) == "~/.kube/kind/kind-" \o name

(* ---------------------------------------------------------------------- *)
(* populateComputedValues                                                  *)
(* ---------------------------------------------------------------------- *)

\* an extraction that clears a value the bundle no longer has
Extracted_cleared(old, found) ==
  IF found # Null THEN found
  ELSE IF old = Null THEN ""
  ELSE Null

\* one extracted attribute: the bundle's value when it has one, otherwise the
\* value the model already holds, and "" when that is null
Extracted(old, found) ==
  IF found # Null THEN found
  ELSE IF old = Null THEN ""
  ELSE old

\* a populateComputedValues that goes on after a failed parse
populateComputedValues_lenient(data, bk, env) ==
  LET name  == data.name
      d1    == [data EXCEPT !.id = name]
      kcErr == IF bk[name] = NoCluster THEN NoNodesErr ELSE env.kubeconfigErr
      text  == bk[name]
      call  == [call |-> "KubeConfig", name |-> name, ret |-> kcErr,
                out |-> IF kcErr # NoErr THEN "" ELSE text]
      d2    == [d1 EXCEPT !.kubeconfig = text]
      d3    == [d2 EXCEPT !.kubeconfig_path = KubeconfigPath(name)]
      doc   == yamlUnmarshal(text)
      parse == [call |-> "yaml.Unmarshal", name |-> name,
                ret |-> IF doc = ParseError THEN YamlErr ELSE NoErr]
      d4    == [d3 EXCEPT
                  !.endpoint = Extracted(@, Extract(doc, "clusters", "cluster", "server")),
                  !.cluster_ca_certificate =
                      Extracted(@, Extract(doc, "clusters", "cluster", "ca")),
                  !.client_certificate =
                      Extracted(@, Extract(doc, "users", "user", "cert")),
                  !.client_key = Extracted(@, Extract(doc, "users", "user", "key"))]
  IN  IF kcErr # NoErr
      THEN [data |-> d1, calls |-> <<call>>,
            diags |-> <<Diag("Failed to get kubeconfig", kcErr)>>]
      ELSE IF ~env.homeOk
      THEN [data |-> d2, calls |-> <<call>>,
            diags |-> <<Diag("Failed to get home directory", HomeErr)>>]
      ELSE [data |-> d4, calls |-> <<call, parse>>, diags |-> << >>]

\* populateComputedValues(data, diagnostics): the model it leaves, the
\* diagnostics it adds and the backend calls it makes
populateComputedValues(data, bk, env) ==
  LET name  == data.name
      d1    == [data EXCEPT !.id = name]
      kcErr == IF bk[name] = NoCluster THEN NoNodesErr ELSE env.kubeconfigErr
      text  == bk[name]
      call  == [call |-> "KubeConfig", name |-> name, ret |-> kcErr,
                out |-> IF kcErr # NoErr THEN "" ELSE text]
      d2    == [d1 EXCEPT !.kubeconfig = text]
      d3    == [d2 EXCEPT !.kubeconfig_path = KubeconfigPath(name)]
      doc   == yamlUnmarshal(text)
      parse == [call |-> "yaml.Unmarshal", name |-> name,
                ret |-> IF doc = ParseError THEN YamlErr ELSE NoErr]
      d4    == [d3 EXCEPT
                  !.endpoint = Extracted(@, Extract(doc, "clusters", "cluster", "server")),
                  !.cluster_ca_certificate =
                      Extracted(@, Extract(doc, "clusters", "cluster", "ca")),
                  !.client_certificate =
                      Extracted(@, Extract(doc, "users", "user", "cert")),
                  !.client_key = Extracted(@, Extract(doc, "users", "user", "key"))]
  IN  IF kcErr # NoErr
      THEN [data |-> d1, calls |-> <<call>>,
            diags |-> <<Diag("Failed to get kubeconfig", kcErr)>>]
      ELSE IF ~env.homeOk
      THEN [data |-> d2, calls |-> <<call>>,
            diags |-> <<Diag("Failed to get home directory", HomeErr)>>]
      ELSE IF doc = ParseError
      THEN [data |-> d3, calls |-> <<call, parse>>,
            diags |-> <<Diag("Failed to parse kubeconfig", YamlErr)>>]
      ELSE [data |-> d4, calls |-> <<call, parse>>, diags |-> << >>]


(* ---------------------------------------------------------------------- *)
(* The handlers.  Each gives the backend and lock file it leaves and its   *)
(* response: the diagnostics, the state it has set and the calls it made.  *)
(* ---------------------------------------------------------------------- *)

Response(op, name, prior, plan, diags, state, calls) ==
  [op |-> op, name |-> name, prior |-> prior, plan |-> plan,
   diags |-> diags, state |-> state, calls |-> calls]

\* a diagnostic that loses the backend's message
CreateErrorDiag_dropped(err) == Diag("Failed to create cluster", "")

\* the diagnostic of a failed provider.Create: the backend's message verbatim
CreateErrorDiag(err) == Diag("Failed to create cluster", err)

\* a Create that runs the readiness wait whatever the plan says
WaitsForNodes_always(plan) == TRUE

\* if !data.WaitForNodesReady.IsNull() && data.WaitForNodesReady.ValueBool()
WaitsForNodes(plan) ==
  plan.wait_for_nodes_ready # Null /\ plan.wait_for_nodes_ready = "true"

\* a Create that removes the cluster again when a later step fails
Create_rollback(bk, lk, plan, env) ==
  LET name      == plan.name
      lk1       == cleanupStaleLockFile(lk, env)
      createErr == IF bk[name] # NoCluster THEN AlreadyExists ELSE env.createErr
      bk1       == [bk EXCEPT ![name] = env.bundle]
      cLock     == [call |-> "cleanupStaleLockFile", name |-> name, ret |-> NoErr,
                    homeOk |-> env.homeOk, statOk |-> env.statOk,
                    removeOk |-> env.removeOk, age |-> lk]
      cConfig   == [call |-> "buildClusterConfig", name |-> name, ret |-> NoErr]
      cCreate   == [call |-> "Create", name |-> name, ret |-> createErr,
                    timeout |-> plan.wait_for_ready,
                    image |-> IF plan.node_image # Null /\ plan.node_image # ""
                              THEN plan.node_image ELSE Null]
      p         == populateComputedValues(plan, bk1, env)
      cGate     == [call |-> "waitForAllNodesReady", name |-> name,
                    ret |-> env.gate, timeout |-> plan.wait_for_ready,
                    kubeconfig |-> p.data.kubeconfig]
      resp(diags, state, calls) ==
        Response("Create", name, NoState, plan, diags, state, calls)
  IN  IF createErr # NoErr
      THEN [backend |-> bk, lock |-> lk1,
            resp |-> resp(<<CreateErrorDiag(createErr)>>,
                          NoState, <<cLock, cConfig, cCreate>>)]
      ELSE IF HasError(p.diags)
      THEN [backend |-> bk, lock |-> lk1,
            resp |-> resp(p.diags, NoState, <<cLock, cConfig, cCreate>> \o p.calls)]
      ELSE IF WaitsForNodes(plan)
      THEN IF env.gate # NoErr
           THEN [backend |-> bk, lock |-> lk1,
                 resp |-> resp(<<Diag("Failed waiting for nodes to be ready", env.gate)>>,
                               NoState, <<cLock, cConfig, cCreate>> \o p.calls \o <<cGate>>)]
           ELSE [backend |-> bk1, lock |-> lk1,
                 resp |-> resp(<< >>, p.data,
                               <<cLock, cConfig, cCreate>> \o p.calls \o <<cGate>>)]
      ELSE [backend |-> bk1, lock |-> lk1,
            resp |-> resp(<< >>, p.data, <<cLock, cConfig, cCreate>> \o p.calls)]

\* Create: plan is req.Plan; the response state starts as no state.
\* The calls are logged in the order Create makes them; the configuration
\* that buildClusterConfig returns is followed in SpecSynth.
\* env.createErr / env.bundle: what provider.Create returns / the kubeconfig
\* of the cluster it makes; env.gate: what waitForAllNodesReady returns.
Create(bk, lk, plan, env) ==
  LET name      == plan.name
      lk1       == cleanupStaleLockFile(lk, env)
      createErr == IF bk[name] # NoCluster THEN AlreadyExists ELSE env.createErr
      bk1       == [bk EXCEPT ![name] = env.bundle]
      cLock     == [call |-> "cleanupStaleLockFile", name |-> name, ret |-> NoErr,
                    homeOk |-> env.homeOk, statOk |-> env.statOk,
                    removeOk |-> env.removeOk, age |-> lk]
      cConfig   == [call |-> "buildClusterConfig", name |-> name, ret |-> NoErr]
      cCreate   == [call |-> "Create", name |-> name, ret |-> createErr,
                    timeout |-> plan.wait_for_ready,
                    image |-> IF plan.node_image # Null /\ plan.node_image # ""
                              THEN plan.node_image ELSE Null]
      p         == populateComputedValues(plan, bk1, env)
      cGate     == [call |-> "waitForAllNodesReady", name |-> name,
                    ret |-> env.gate, timeout |-> plan.wait_for_ready,
                    kubeconfig |-> p.data.kubeconfig]
      resp(diags, state, calls) ==
        Response("Create", name, NoState, plan, diags, state, calls)
  IN  IF createErr # NoErr
      THEN [backend |-> bk, lock |-> lk1,
            resp |-> resp(<<CreateErrorDiag(createErr)>>,
                          NoState, <<cLock, cConfig, cCreate>>)]
      ELSE IF HasError(p.diags)
      THEN [backend |-> bk1, lock |-> lk1,
            resp |-> resp(p.diags, NoState, <<cLock, cConfig, cCreate>> \o p.calls)]
      ELSE IF WaitsForNodes(plan)
      THEN IF env.gate # NoErr
           THEN [backend |-> bk1, lock |-> lk1,
                 resp |-> resp(<<Diag("Failed waiting for nodes to be ready", env.gate)>>,
                               NoState, <<cLock, cConfig, cCreate>> \o p.calls \o <<cGate>>)]
           ELSE [backend |-> bk1, lock |-> lk1,
                 resp |-> resp(<< >>, p.data,
                               <<cLock, cConfig, cCreate>> \o p.calls \o <<cGate>>)]
      ELSE [backend |-> bk1, lock |-> lk1,
            resp |-> resp(<< >>, p.data, <<cLock, cConfig, cCreate>> \o p.calls)]

\* a search that is satisfied by any cluster
Found_any(clusters, name) == clusters # {}

\* the search of the listed clusters for the resource's name
Found(clusters, name) == name \in clusters

\* a Read that takes a failed List for an empty inventory
Read_listGone(bk, lk, prior, env) ==
  LET name     == prior.name
      clusters == Inventory(bk)
      cList    == [call |-> "List", name |-> name, ret |-> env.listErr,
                   out |-> IF env.listErr # NoErr THEN {} ELSE clusters]
      found    == env.listErr = NoErr /\ Found(clusters, name)
      p        == populateComputedValues(prior, bk, env)
      resp(diags, state, calls) ==
        Response("Read", name, prior, prior, diags, state, calls)
  IN  IF ~found
      THEN [backend |-> bk, lock |-> lk, resp |-> resp(<< >>, NoState, <<cList>>)]
      ELSE IF HasError(p.diags)
      THEN [backend |-> bk, lock |-> lk,
            resp |-> resp(p.diags, prior, <<cList>> \o p.calls)]
      ELSE [backend |-> bk, lock |-> lk,
            resp |-> resp(<< >>, p.data, <<cList>> \o p.calls)]

\* Read: prior is req.State; the response state starts as the prior state
Read(bk, lk, prior, env) ==
  LET name     == prior.name
      clusters == Inventory(bk)
      cList    == [call |-> "List", name |-> name, ret |-> env.listErr,
                   out |-> IF env.listErr # NoErr THEN {} ELSE clusters]
      found    == Found(clusters, name)
      p        == populateComputedValues(prior, bk, env)
      resp(diags, state, calls) ==
        Response("Read", name, prior, prior, diags, state, calls)
  IN  IF env.listErr # NoErr
      THEN [backend |-> bk, lock |-> lk,
            resp |-> resp(<<Diag("Failed to list clusters", env.listErr)>>,
                          prior, <<cList>>)]
      ELSE IF ~found
      THEN [backend |-> bk, lock |-> lk, resp |-> resp(<< >>, NoState, <<cList>>)]
      ELSE IF HasError(p.diags)
      THEN [backend |-> bk, lock |-> lk,
            resp |-> resp(p.diags, prior, <<cList>> \o p.calls)]
      ELSE [backend |-> bk, lock |-> lk,
            resp |-> resp(<< >>, p.data, <<cList>> \o p.calls)]

\* the orders in which cluster.Provider.List() can return the clusters
ListOrders(bk) ==
  {s \in [1..Cardinality(Inventory(bk)) -> Inventory(bk)] :
     \A i, j \in DOMAIN s : i # j => s[i] # s[j]}

\* a data source that returns the listed clusters back to front
ClustersDataSourceRead_reversed(bk, lk, listed, listErr) ==
  LET cList == [call |-> "List", name |-> "", ret |-> listErr,
                out |-> IF listErr # NoErr THEN << >> ELSE listed]
      resp(diags, state) ==
        Response("DataRead", "", NoState, NoState, diags, state, <<cList>>)
  IN  IF listErr # NoErr
      THEN [backend |-> bk, lock |-> lk,
            resp |-> resp(<<Diag("Failed to list clusters", listErr)>>, NoState)]
      ELSE [backend |-> bk, lock |-> lk,
            resp |-> resp(<< >>,
                          [id |-> "kind-clusters",
                           clusters |-> [i \in 1..Len(listed) |->
                                           listed[Len(listed) + 1 - i]]])]

\* ClustersDataSource.Read: the request carries nothing and the response
\* state starts null; listed is the result of d.provider.List()
ClustersDataSourceRead(bk, lk, listed, listErr) ==
  LET cList == [call |-> "List", name |-> "", ret |-> listErr,
                out |-> IF listErr # NoErr THEN << >> ELSE listed]
      resp(diags, state) ==
        Response("DataRead", "", NoState, NoState, diags, state, <<cList>>)
  IN  IF listErr # NoErr
      THEN [backend |-> bk, lock |-> lk,
            resp |-> resp(<<Diag("Failed to list clusters", listErr)>>, NoState)]
      ELSE [backend |-> bk, lock |-> lk,
            resp |-> resp(<< >>,
                          [id |-> "kind-clusters",
                           clusters |-> [i \in 1..Len(listed) |-> listed[i]]])]

\* an Update that runs the stale-lock cleanup
Update_cleaning(bk, lk, prior, plan, env) ==
  LET p == populateComputedValues(plan, bk, env)
      resp(diags, state, calls) ==
        Response("Update", plan.name, prior, plan, diags, state, calls)
  IN  IF HasError(p.diags)
      THEN [backend |-> bk, lock |-> cleanupStaleLockFile(lk, env), resp |-> resp(p.diags, prior, p.calls)]
      ELSE [backend |-> bk, lock |-> cleanupStaleLockFile(lk, env), resp |-> resp(<< >>, p.data, p.calls)]

\* Update: plan is req.Plan; the response state starts as the prior state
Update(bk, lk, prior, plan, env) ==
  LET p == populateComputedValues(plan, bk, env)
      resp(diags, state, calls) ==
        Response("Update", plan.name, prior, plan, diags, state, calls)
  IN  IF HasError(p.diags)
      THEN [backend |-> bk, lock |-> lk, resp |-> resp(p.diags, prior, p.calls)]
      ELSE [backend |-> bk, lock |-> lk, resp |-> resp(<< >>, p.data, p.calls)]

\* a Delete error that does not carry the backend's message
DeleteErrorDiag_generic(err) == Diag("Failed to delete cluster", "")

\* resp.Diagnostics.AddError("Failed to delete cluster", err.Error())
DeleteErrorDiag(err) == Diag("Failed to delete cluster", err)

\* a Delete that gives up when the stale lock file cannot be removed
Delete_lockFatal(bk, lk, prior, env) ==
  LET name    == prior.name
      lk1     == cleanupStaleLockFile(lk, env)
      cLock   == [call |-> "cleanupStaleLockFile", name |-> name, ret |-> NoErr,
                  homeOk |-> env.homeOk, statOk |-> env.statOk,
                  removeOk |-> env.removeOk, age |-> lk]
      cDelete == [call |-> "Delete", name |-> name, ret |-> env.deleteErr]
      resp(diags, state, calls) ==
        Response("Delete", name, prior, prior, diags, state, calls)
  IN  IF lk1 # NoLock /\ lk1 > StaleAfter
      THEN [backend |-> bk, lock |-> lk1,
            resp |-> resp(<<Diag("Failed to remove lock file", "")>>,
                          prior, <<cLock>>)]
      ELSE IF env.deleteErr # NoErr
      THEN [backend |-> bk, lock |-> lk1,
            resp |-> resp(<<DeleteErrorDiag(env.deleteErr)>>,
                          prior, <<cLock, cDelete>>)]
      ELSE [backend |-> [bk EXCEPT ![name] = NoCluster], lock |-> lk1,
            resp |-> resp(<< >>, NoState, <<cLock, cDelete>>)]

\* Delete: prior is req.State; the framework removes the state when the
\* handler returns without an error
Delete(bk, lk, prior, env) ==
  LET name    == prior.name
      lk1     == cleanupStaleLockFile(lk, env)
      bk1     == [bk EXCEPT ![name] = NoCluster]
      cLock   == [call |-> "cleanupStaleLockFile", name |-> name, ret |-> NoErr,
                  homeOk |-> env.homeOk, statOk |-> env.statOk,
                  removeOk |-> env.removeOk, age |-> lk]
      cDelete == [call |-> "Delete", name |-> name, ret |-> env.deleteErr]
      resp(diags, state, calls) ==
        Response("Delete", name, prior, prior, diags, state, calls)
  IN  IF env.deleteErr # NoErr
      THEN [backend |-> bk, lock |-> lk1,
            resp |-> resp(<<DeleteErrorDiag(env.deleteErr)>>,
                          prior, <<cLock, cDelete>>)]
      ELSE [backend |-> bk1, lock |-> lk1,
            resp |-> resp(<< >>, NoState, <<cLock, cDelete>>)]


(* ---------------------------------------------------------------------- *)
(* State                                                                   *)
(* ---------------------------------------------------------------------- *)

VARIABLES
  backend,   \* the kind backend: name -> kubeconfig text of its cluster, or NoCluster
  lock,      \* the lock file: NoLock or its age
  tracked,   \* Terraform's state: name -> resource state, or NoState
  planned,   \* what Terraform decided that led to the last handler call
  resp,      \* the response of the last handler call
  waitLoop,  \* one call of waitForAllNodesReady followed step by step
  par,       \* two handler calls for different names running in parallel
  synth      \* one call of buildClusterConfig: its model and its result

vars == <<backend, lock, tracked, planned, resp, waitLoop, par, synth>>

\* the variables of the handler calls Terraform makes one at a time
mainVars == <<backend, lock, tracked, planned, resp>>

\* the variables that follow a single call in detail; they stay at their
\* rest values while Terraform's calls are followed as wholes
detailVars == <<waitLoop, par, synth>>

GateOff == [pc |-> "off"]
ParOff == [pc |-> "off"]
SynthOff == [pc |-> "off"]

\* the names that have a kind_cluster resource in the configuration
Managed == {"a"}

NoResp == Response("none", "", NoState, NoState, << >>, NoState, << >>)

Init ==
  /\ backend = [n \in Names |-> NoCluster]
  /\ lock = NoLock
  /\ tracked = [n \in Names |-> NoState]
  /\ planned = "none"
  /\ resp = NoResp
  /\ waitLoop = GateOff
  /\ par = ParOff
  /\ synth = SynthOff

(* ---------------------------------------------------------------------- *)
(* Environments of a handler call: the results of the calls it makes       *)
(* ---------------------------------------------------------------------- *)

\* outcomes of the file-system calls: all succeed, or the first failure
FsEnvs ==
  {[homeOk |-> TRUE,  statOk |-> TRUE,  removeOk |-> TRUE],
   [homeOk |-> FALSE, statOk |-> TRUE,  removeOk |-> TRUE],
   [homeOk |-> TRUE,  statOk |-> FALSE, removeOk |-> TRUE],
   [homeOk |-> TRUE,  statOk |-> TRUE,  removeOk |-> FALSE]}

\* the outcomes that can be told apart with the lock file lk: os.Stat of a
\* missing file always fails, os.Remove is only called on a stale file
FsEnvsFor(lk) ==
  {f \in FsEnvs : /\ (lk = NoLock => f.statOk)
                  /\ (~(lk # NoLock /\ lk > StaleAfter) => f.removeOk)}

\* the file-system outcomes of an operation that only asks for the home directory
HomeEnvs == {f \in FsEnvs : f.statOk /\ f.removeOk}

Env(fs, createErr, bundle, kubeconfigErr, gate, listErr, deleteErr) ==
  [homeOk |-> fs.homeOk, statOk |-> fs.statOk, removeOk |-> fs.removeOk,
   createErr |-> createErr, bundle |-> bundle, kubeconfigErr |-> kubeconfigErr,
   gate |-> gate, listErr |-> listErr, deleteErr |-> deleteErr]

\* the environments of a Create with a timeout: the later results are fixed
\* when an earlier call fails and they are never asked for
CreateEnvs(lk, timeout) ==
  {Env(fs, e, "kc-full-1", NoErr, NoErr, NoErr, NoErr) :
     fs \in FsEnvsFor(lk), e \in CreateErrs}
  \cup {Env(fs, NoErr, b, e, NoErr, NoErr, NoErr) :
     fs \in FsEnvsFor(lk), b \in KubeconfigTexts, e \in KubeconfigErrs}
  \cup {Env(fs, NoErr, b, NoErr, g, NoErr, NoErr) :
     fs \in FsEnvsFor(lk), b \in KubeconfigTexts, g \in GateOutcomes[timeout]}

ReadEnvs ==
  {Env(fs, NoErr, "kc-full-1", k, NoErr, l, NoErr) :
     fs \in HomeEnvs,
     k \in KubeconfigErrs \cup {NoErr}, l \in ListErrs \cup {NoErr}}

UpdateEnvs ==
  {Env(fs, NoErr, "kc-full-1", k, NoErr, NoErr, NoErr) :
     fs \in HomeEnvs,
     k \in KubeconfigErrs \cup {NoErr}}

DeleteEnvs(lk) ==
  {Env(fs, NoErr, "kc-full-1", NoErr, NoErr, NoErr, d) :
     fs \in FsEnvsFor(lk), d \in DeleteErrs \cup {NoErr}}

(* ---------------------------------------------------------------------- *)
(* Actions: Terraform calling a handler, and the world around it           *)
(* ---------------------------------------------------------------------- *)

\* no handler call is in progress: the controller runs one operation at a
\* time, and the world changes between operations
Idle == resp = NoResp

\* the response of the last call has been taken by Terraform
Respond ==
  /\ ~Idle
  /\ resp' = NoResp
  /\ planned' = "none"
  /\ UNCHANGED <<backend, lock, tracked>>
  /\ UNCHANGED detailVars

\* terraform apply of a resource that has no state
TfCreate(n) ==
  /\ Idle
  /\ tracked[n] = NoState
  /\ \E cfg \in Configs :
       \E env \in CreateEnvs(lock, cfg.wait_for_ready) :
         LET r == Create(backend, lock, PlanData(n, cfg, NoState), env)
         IN  /\ backend' = r.backend
             /\ lock' = r.lock
             /\ resp' = r.resp
             /\ planned' = "create"
             /\ tracked' = [tracked EXCEPT ![n] = StateAfterApply(r.resp.state)]
  /\ UNCHANGED detailVars

\* terraform refresh
TfRead(n) ==
  /\ Idle
  /\ tracked[n] # NoState
  /\ \E env \in ReadEnvs :
       LET r == Read(backend, lock, tracked[n], env)
       IN  /\ backend' = r.backend
           /\ lock' = r.lock
           /\ resp' = r.resp
           /\ planned' = "refresh"
           /\ tracked' = [tracked EXCEPT ![n] = r.resp.state]
  /\ UNCHANGED detailVars

\* terraform reading the data source kind_clusters
TfDataRead ==
  /\ Idle
  /\ \E listErr \in ListErrs \cup {NoErr} :
       \E listed \in ListOrders(backend) :
         LET r == ClustersDataSourceRead(backend, lock, listed, listErr)
         IN  /\ backend' = r.backend
             /\ lock' = r.lock
             /\ resp' = r.resp
             /\ planned' = "data"
             /\ UNCHANGED tracked
  /\ UNCHANGED detailVars

\* an apply that drops the resource from the state when Update reports an error
TfUpdate_dropping(n) ==
  /\ Idle
  /\ tracked[n] # NoState
  /\ \E cfg \in Configs :
       /\ PlanAction(n, cfg, tracked[n]) = "update"
       /\ \E env \in UpdateEnvs :
            LET r == Update(backend, lock, tracked[n],
                            PlanData(n, cfg, tracked[n]), env)
            IN  /\ backend' = r.backend
                /\ lock' = r.lock
                /\ resp' = r.resp
                /\ planned' = "update"
                /\ tracked' = [tracked EXCEPT ![n] =
                                 IF HasError(r.resp.diags) THEN NoState
                                 ELSE StateAfterApply(r.resp.state)]
  /\ UNCHANGED detailVars

\* terraform apply of a changed configuration that the diff resolves in place
TfUpdate(n) ==
  /\ Idle
  /\ tracked[n] # NoState
  /\ \E cfg \in Configs :
       /\ PlanAction(n, cfg, tracked[n]) = "update"
       /\ \E env \in UpdateEnvs :
            LET r == Update(backend, lock, tracked[n],
                            PlanData(n, cfg, tracked[n]), env)
            IN  /\ backend' = r.backend
                /\ lock' = r.lock
                /\ resp' = r.resp
                /\ planned' = "update"
                /\ tracked' = [tracked EXCEPT ![n] = StateAfterApply(r.resp.state)]
  /\ UNCHANGED detailVars

\* terraform apply of a changed configuration that the diff resolves by
\* replacement: the Delete half; the Create half is TfCreate
TfReplace(n) ==
  /\ Idle
  /\ tracked[n] # NoState
  /\ \E cfg \in Configs :
       /\ PlanAction(n, cfg, tracked[n]) = "replace"
       /\ \E env \in DeleteEnvs(lock) :
            LET r == Delete(backend, lock, tracked[n], env)
            IN  /\ backend' = r.backend
                /\ lock' = r.lock
                /\ resp' = [r.resp EXCEPT !.plan = PlanData(n, cfg, tracked[n])]
                /\ planned' = "replace"
                /\ tracked' = [tracked EXCEPT ![n] = r.resp.state]
  /\ UNCHANGED detailVars

\* terraform destroy
TfDelete(n) ==
  /\ Idle
  /\ tracked[n] # NoState
  /\ \E env \in DeleteEnvs(lock) :
       LET r == Delete(backend, lock, tracked[n], env)
       IN  /\ backend' = r.backend
           /\ lock' = r.lock
           /\ resp' = r.resp
           /\ planned' = "destroy"
           /\ tracked' = [tracked EXCEPT ![n] = r.resp.state]
  /\ UNCHANGED detailVars

\* the kubeconfig a cluster made outside Terraform can have
ExternalTexts(n) == IF n \in Managed THEN KubeconfigTexts ELSE {"kc-full-2"}

\* a cluster made outside Terraform (kind create cluster)
BackendCreated(n) ==
  /\ Idle
  /\ backend[n] = NoCluster
  /\ \E b \in ExternalTexts(n) : backend' = [backend EXCEPT ![n] = b]
  /\ UNCHANGED <<lock, tracked, planned, resp>>
  /\ UNCHANGED detailVars

\* a cluster removed outside Terraform (kind delete cluster)
BackendDeleted(n) ==
  /\ Idle
  /\ backend[n] # NoCluster
  /\ backend' = [backend EXCEPT ![n] = NoCluster]
  /\ UNCHANGED <<lock, tracked, planned, resp>>
  /\ UNCHANGED detailVars

\* another process leaves or refreshes the lock file, or time passes over it
LockWritten ==
  /\ Idle
  /\ \E age \in LockAges : age # lock /\ lock' = age
  /\ UNCHANGED <<backend, tracked, planned, resp>>
  /\ UNCHANGED detailVars

\* the process holding the lock file releases it
LockReleased ==
  /\ Idle
  /\ lock # NoLock
  /\ lock' = NoLock
  /\ UNCHANGED <<backend, tracked, planned, resp>>
  /\ UNCHANGED detailVars

Next ==
  \/ \E n \in Managed : TfCreate(n)
  \/ \E n \in Managed : TfRead(n)
  \/ \E n \in Managed : TfUpdate(n)
  \/ \E n \in Managed : TfReplace(n)
  \/ \E n \in Managed : TfDelete(n)
  \/ TfDataRead
  \/ \E n \in Names : BackendCreated(n)
  \/ \E n \in Names : BackendDeleted(n)
  \/ LockWritten
  \/ LockReleased
  \/ Respond

Spec == Init /\ [][Next]_vars


(* ---------------------------------------------------------------------- *)
(* The readiness wait, step by step                                        *)
(* ---------------------------------------------------------------------- *)

\* the clock of the wait stops here: every timer has fired by then
MaxTime == MaxWait + PollInterval

NoPoll == [none |-> TRUE]

\* a wait whose ticker has a tick ready at entry
GateStart_tickAtEntry(timeout) ==
  [pc |-> "setup", timeout |-> timeout, now |-> 0,
   ctxDone |-> FALSE, cancelAt |-> 0, cancelIn |-> "",
   tick |-> TRUE, polls |-> 0, late |-> 0,
   last |-> NoPoll, seen |-> {}, result |-> ""]

\* waitForAllNodesReady entered with a timeout.
\* pc: where the goroutine is; now: seconds since the ticker and the timer
\* were started; ctxDone: ctx.Done() is closed (cancelAt, cancelIn: when and
\* where that happened); tick: a tick waits in ticker.C (capacity 1);
\* polls: the List calls issued; late: those issued after ctx was cancelled;
\* last, seen: the result of the last List call and of all of them
GateStart(timeout) ==
  [pc |-> "setup", timeout |-> timeout, now |-> 0,
   ctxDone |-> FALSE, cancelAt |-> 0, cancelIn |-> "",
   tick |-> FALSE, polls |-> 0, late |-> 0,
   last |-> NoPoll, seen |-> {}, result |-> ""]

\* time.After(timeout): the timer channel holds a value from then on
TimeoutFired_never(now, timeout) == FALSE

TimeoutFired(now, timeout) == now >= timeout

\* one pass of the ticker case: nil ends the wait, anything else continues
AfterPoll_surfacing(poll) ==
  IF poll = PollErr THEN "failed to list nodes"
  ELSE IF AllNodesReady(poll) THEN NoErr ELSE ""

AfterPoll(poll) == IF AllNodesReady(poll) THEN NoErr ELSE ""

\* the channels of the select that can be received from
GateReady(g) ==
  (IF g.ctxDone THEN {"ctx"} ELSE {})
  \cup (IF TimeoutFired(g.now, g.timeout) THEN {"timeout"} ELSE {})
  \cup (IF g.tick THEN {"tick"} ELSE {})

GateInit ==
  /\ backend = [n \in Names |-> NoCluster]
  /\ lock = NoLock
  /\ tracked = [n \in Names |-> NoState]
  /\ planned = "none"
  /\ resp = NoResp
  /\ par = ParOff
  /\ synth = SynthOff
  /\ waitLoop \in {GateStart(t) : t \in GateTimeouts}

\* the temp kubeconfig and the client set: an error returns at once, success
\* starts the ticker and the timer
GateSetup ==
  /\ waitLoop.pc = "setup"
  /\ \E e \in GateSetupErrs \cup {NoErr} :
       waitLoop' = IF e = NoErr
                   THEN [waitLoop EXCEPT !.pc = "select"]
                   ELSE [waitLoop EXCEPT !.pc = "done", !.result = e]
  /\ UNCHANGED <<mainVars, par, synth>>

\* the caller cancels the context
GateCancel ==
  /\ waitLoop.pc \in {"setup", "select", "poll"}
  /\ ~waitLoop.ctxDone
  /\ waitLoop' = [waitLoop EXCEPT !.ctxDone = TRUE, !.cancelAt = waitLoop.now,
                                  !.cancelIn = waitLoop.pc]
  /\ UNCHANGED <<mainVars, par, synth>>

\* a second passes: a select with a ready channel does not wait, and a List
\* call whose context is cancelled returns; a tick is left in ticker.C every
\* PollInterval seconds and dropped when one is already there
GateAdvance ==
  /\ waitLoop.pc \in {"select", "poll"}
  /\ waitLoop.now < MaxTime
  /\ waitLoop.pc = "select" => GateReady(waitLoop) = {}
  /\ waitLoop.pc = "poll" => ~waitLoop.ctxDone
  /\ waitLoop' = [waitLoop EXCEPT
                    !.now = waitLoop.now + 1,
                    !.tick = waitLoop.tick \/ (waitLoop.now + 1) % PollInterval = 0]
  /\ UNCHANGED <<mainVars, par, synth>>

\* case <-ctx.Done()
GateCtxDone ==
  /\ waitLoop.pc = "select"
  /\ "ctx" \in GateReady(waitLoop)
  /\ waitLoop' = [waitLoop EXCEPT !.pc = "done", !.result = CtxErr]
  /\ UNCHANGED <<mainVars, par, synth>>

\* case <-timeoutCh
GateTimeout ==
  /\ waitLoop.pc = "select"
  /\ "timeout" \in GateReady(waitLoop)
  /\ waitLoop' = [waitLoop EXCEPT !.pc = "done",
                                  !.result = TimeoutErr(waitLoop.timeout)]
  /\ UNCHANGED <<mainVars, par, synth>>

\* case <-ticker.C: the List call is issued
GateTick ==
  /\ waitLoop.pc = "select"
  /\ "tick" \in GateReady(waitLoop)
  /\ waitLoop' = [waitLoop EXCEPT
                    !.pc = "poll", !.tick = FALSE,
                    !.polls = waitLoop.polls + 1,
                    !.late = waitLoop.late + (IF waitLoop.ctxDone THEN 1 ELSE 0)]
  /\ UNCHANGED <<mainVars, par, synth>>

\* a wait that returns the error of a failed List call
GatePollReturn_failing ==
  /\ waitLoop.pc = "poll"
  /\ \E poll \in PollResults :
       /\ waitLoop.ctxDone => poll = PollErr
       /\ waitLoop' = [waitLoop EXCEPT
                         !.last = poll,
                         !.seen = waitLoop.seen \cup {poll},
                         !.pc = IF AfterPoll(poll) = "" /\ poll # PollErr
                                THEN "select" ELSE "done",
                         !.result = IF poll = PollErr THEN "failed to list nodes"
                                    ELSE AfterPoll(poll)]
  /\ UNCHANGED <<mainVars, par, synth>>

\* the List call returns: with an error when the context is cancelled
GatePollReturn ==
  /\ waitLoop.pc = "poll"
  /\ \E poll \in PollResults :
       /\ waitLoop.ctxDone => poll = PollErr
       /\ waitLoop' = [waitLoop EXCEPT
                         !.last = poll,
                         !.seen = waitLoop.seen \cup {poll},
                         !.pc = IF AfterPoll(poll) = "" THEN "select" ELSE "done",
                         !.result = AfterPoll(poll)]
  /\ UNCHANGED <<mainVars, par, synth>>

GateNext ==
  \/ GateSetup
  \/ GateCancel
  \/ GateAdvance
  \/ GateCtxDone
  \/ GateTimeout
  \/ GateTick
  \/ GatePollReturn

SpecGate == GateInit /\ [][GateNext]_vars

\* the goroutine runs and its calls return (weak fairness); a select that
\* finds several channels ready picks one of them at random, so a channel
\* that is ready again and again is picked in the end (strong fairness)
SpecGateFair ==
  /\ SpecGate
  /\ WF_vars(GateSetup)
  /\ WF_vars(GateAdvance)
  /\ WF_vars(GateTick)
  /\ WF_vars(GatePollReturn)
  /\ SF_vars(GateCtxDone)
  /\ SF_vars(GateTimeout)

\* the step-by-step wait ends with a result the wait of Create can have
GateStepsAgree ==
  waitLoop.pc = "done" => waitLoop.result \in GateOutcomes[waitLoop.timeout]


(* ---------------------------------------------------------------------- *)
(* Two handler calls for different names in parallel                       *)
(* ---------------------------------------------------------------------- *)

\* the handlers that run in parallel, one for each name
ParOps == {"Create", "Read", "Delete"}

\* the configuration of both resources
ParConfig ==
  [node_image |-> "", wait_for_ready |-> PollInterval,
   wait_for_nodes_ready |-> "true"]

\* the kubeconfig of the cluster that provider.Create makes for a name
ParBundle(n) == IF n = "a" THEN "kc-full-1" ELSE "kc-full-2"

AllOk == Env([homeOk |-> TRUE, statOk |-> TRUE, removeOk |-> TRUE],
             NoErr, "kc-full-1", NoErr, NoErr, NoErr, NoErr)

\* req.Plan of a Create, and req.State of a Read or Delete: the state an
\* earlier Create of the resource has left
ParPlan(n) == PlanData(n, ParConfig, NoState)
ParPrior(n) ==
  StateAfterApply(Create([m \in Names |-> NoCluster], NoLock, ParPlan(n),
                         [AllOk EXCEPT !.bundle = ParBundle(n)]).resp.state)

\* the results of the calls a handler makes, as in CreateEnvs, ReadEnvs and
\* DeleteEnvs, with one failure of each kind
ParEnvs(op, n, lk) ==
  IF op = "Create"
  THEN {Env(fs, "image not found", ParBundle(n), NoErr, NoErr, NoErr, NoErr) :
          fs \in FsEnvsFor(lk)}
       \cup {Env(fs, NoErr, ParBundle(n), k, NoErr, NoErr, NoErr) :
          fs \in FsEnvsFor(lk), k \in KubeconfigErrs}
       \cup {Env(fs, NoErr, ParBundle(n), NoErr, g, NoErr, NoErr) :
          fs \in FsEnvsFor(lk), g \in {NoErr, CtxErr}}
  ELSE IF op = "Read" THEN ReadEnvs
  ELSE DeleteEnvs(lk)

\* the first step of a handler: Create and Delete start with the cleanup
ParEntry(op) == IF op = "Read" THEN "list" ELSE "stat"

\* the step after the cleanup
ParMain(op) == IF op = "Create" THEN "create" ELSE "delete"

ParStart(ops, envs, bk, lk) ==
  [pc |-> "on", backend0 |-> bk, lock0 |-> lk,
   procs |-> [n \in Names |->
                [op |-> ops[n], env |-> envs[n], pc |-> ParEntry(ops[n]),
                 removed |-> "not called", diags |-> << >>, state |-> NoState, calls |-> << >>]]]

ParInit ==
  /\ planned = "none"
  /\ resp = NoResp
  /\ waitLoop = GateOff
  /\ synth = SynthOff
  /\ lock \in {NoLock} \cup LockAges
  /\ backend \in [Names -> {NoCluster, "kc-full-1"}]
  /\ \E ops \in [Names -> ParOps] :
       /\ tracked = [n \in Names |->
                       IF ops[n] = "Create" THEN NoState ELSE ParPrior(n)]
       /\ \E ea \in ParEnvs(ops["a"], "a", lock) :
            \E eb \in ParEnvs(ops["b"], "b", lock) :
              par = ParStart(ops, [n \in Names |-> IF n = "a" THEN ea ELSE eb],
                             backend, lock)

\* the state Terraform tracks once the handler has returned
ParTracked(op, state) ==
  IF op = "Create" THEN StateAfterApply(state) ELSE state

\* what os.Remove returns for the lock file as it is now
RemoveResult(lk, env) ==
  IF lk # NoLock /\ env.removeOk THEN "removed" ELSE "failed"

\* the handler of n goes on to pc without returning
ParGoes(n, pc, calls) ==
  /\ par' = [par EXCEPT !.procs[n].pc = pc,
                        !.procs[n].calls = par.procs[n].calls \o calls]
  /\ UNCHANGED tracked

\* the handler of n returns with diagnostics and the state it has set
ParReturns(n, diags, state, calls) ==
  /\ par' = [par EXCEPT !.procs[n].pc = "done",
                        !.procs[n].diags = diags,
                        !.procs[n].state = state,
                        !.procs[n].calls = par.procs[n].calls \o calls]
  /\ tracked' = [tracked EXCEPT ![n] = ParTracked(par.procs[n].op, state)]

\* cleanupStaleLockFile up to the age test: os.UserHomeDir, os.Stat of the
\* lock file as it is now, time.Since(info.ModTime()) > 60s
ParStat(n) ==
  LET p == par.procs[n]
  IN  /\ par.pc = "on"
      /\ p.pc = "stat"
      /\ IF p.env.homeOk /\ lock # NoLock /\ p.env.statOk /\ lock > StaleAfter
         THEN ParGoes(n, "remove", <<"cleanupStaleLockFile">>)
         ELSE ParGoes(n, ParMain(p.op), <<"cleanupStaleLockFile">>)
      /\ UNCHANGED <<backend, lock, planned, resp, waitLoop, synth>>

\* a cleanup that makes the handler fail when the file it found stale is
\* no longer there to remove
ParRemove_strict(n) ==
  LET p == par.procs[n]
  IN  /\ par.pc = "on"
      /\ p.pc = "remove"
      /\ lock' = IF RemoveResult(lock, p.env) = "removed" THEN NoLock ELSE lock
      /\ IF lock = NoLock
         THEN ParReturns(n, <<Diag("Failed to remove lock file", "")>>,
                         IF p.op = "Create" THEN NoState ELSE ParPrior(n), << >>)
         ELSE /\ par' = [par EXCEPT !.procs[n].pc = ParMain(p.op),
                                    !.procs[n].removed = RemoveResult(lock, p.env)]
              /\ UNCHANGED tracked
      /\ UNCHANGED <<backend, planned, resp, waitLoop, synth>>

\* os.Remove(lockFile): it fails when the file is gone by now, and its
\* error is ignored
ParRemove(n) ==
  LET p == par.procs[n]
  IN  /\ par.pc = "on"
      /\ p.pc = "remove"
      /\ lock' = IF RemoveResult(lock, p.env) = "removed" THEN NoLock ELSE lock
      /\ par' = [par EXCEPT !.procs[n].pc = ParMain(p.op),
                            !.procs[n].removed = RemoveResult(lock, p.env)]
      /\ UNCHANGED tracked
      /\ UNCHANGED <<backend, planned, resp, waitLoop, synth>>

\* Create: cfg := r.buildClusterConfig(&data), then
\* r.provider.Create(name, createOpts...)
ParCreate(n) ==
  LET p == par.procs[n]
      createErr == IF backend[n] # NoCluster THEN AlreadyExists ELSE p.env.createErr
  IN  /\ par.pc = "on"
      /\ p.pc = "create"
      /\ IF createErr # NoErr
         THEN /\ ParReturns(n, <<CreateErrorDiag(createErr)>>, NoState,
                              <<"buildClusterConfig", "Create">>)
              /\ UNCHANGED backend
         ELSE /\ ParGoes(n, "populate", <<"buildClusterConfig", "Create">>)
              /\ backend' = [backend EXCEPT ![n] = p.env.bundle]
      /\ UNCHANGED <<lock, planned, resp, waitLoop, synth>>

\* Create, Read: populateComputedValues, then in Create the readiness wait
\* and resp.State.Set
ParPopulate(n) ==
  LET p == par.procs[n]
      data == IF p.op = "Create" THEN ParPlan(n) ELSE ParPrior(n)
      keep == IF p.op = "Create" THEN NoState ELSE ParPrior(n)
      v == populateComputedValues(data, backend, p.env)
      names == [i \in 1..Len(v.calls) |-> v.calls[i].call]
  IN  /\ par.pc = "on"
      /\ p.pc = "populate"
      /\ IF HasError(v.diags)
         THEN ParReturns(n, v.diags, keep, names)
         ELSE IF p.op = "Create" /\ data.wait_for_nodes_ready = "true"
         THEN IF p.env.gate # NoErr
              THEN ParReturns(n, <<Diag("Failed waiting for nodes to be ready",
                                        p.env.gate)>>,
                              NoState, names \o <<"waitForAllNodesReady">>)
              ELSE ParReturns(n, << >>, v.data, names \o <<"waitForAllNodesReady">>)
         ELSE ParReturns(n, << >>, v.data, names)
      /\ UNCHANGED <<backend, lock, planned, resp, waitLoop, synth>>

\* Read: r.provider.List() and the search for the name
ParList(n) ==
  LET p == par.procs[n]
  IN  /\ par.pc = "on"
      /\ p.pc = "list"
      /\ IF p.env.listErr # NoErr
         THEN ParReturns(n, <<Diag("Failed to list clusters", p.env.listErr)>>,
                         ParPrior(n), <<"List">>)
         ELSE IF ~Found(Inventory(backend), n)
         THEN ParReturns(n, << >>, NoState, <<"List">>)
         ELSE ParGoes(n, "populate", <<"List">>)
      /\ UNCHANGED <<backend, lock, planned, resp, waitLoop, synth>>

\* Delete: r.provider.Delete(clusterName, "")
ParDelete(n) ==
  LET p == par.procs[n]
  IN  /\ par.pc = "on"
      /\ p.pc = "delete"
      /\ IF p.env.deleteErr # NoErr
         THEN /\ ParReturns(n, <<DeleteErrorDiag(p.env.deleteErr)>>, ParPrior(n),
                            <<"Delete">>)
              /\ UNCHANGED backend
         ELSE /\ ParReturns(n, << >>, NoState, <<"Delete">>)
              /\ backend' = [backend EXCEPT ![n] = NoCluster]
      /\ UNCHANGED <<lock, planned, resp, waitLoop, synth>>

ParNext ==
  \/ \E n \in Names : ParStat(n)
  \/ \E n \in Names : ParRemove(n)
  \/ \E n \in Names : ParCreate(n)
  \/ \E n \in Names : ParPopulate(n)
  \/ \E n \in Names : ParList(n)
  \/ \E n \in Names : ParDelete(n)

SpecPar == ParInit /\ [][ParNext]_vars


(* ---------------------------------------------------------------------- *)
(* Synthesis of the kind configuration (buildClusterConfig)                *)
(* ---------------------------------------------------------------------- *)

\* the largest number of node blocks a model has
MaxNodes == 2

\* v1alpha4.ControlPlaneRole, v1alpha4.WorkerRole, and the zero value of Role
ControlPlaneRole == "control-plane"
WorkerRole == "worker"
NoRole == ""

\* the role strings a node block can carry: the schema takes any string
NodeRoles == {"control-plane", "worker", "etcd"}

\* a map with no element; a nil Go map reads the same
EmptyMap == [k \in {} |-> ""]

\* the labels attribute of a node block: null, or a map whose element values
\* are strings or null
NodeLabels ==
  {[isNull |-> TRUE, elements |-> EmptyMap],
   [isNull |-> FALSE, elements |-> EmptyMap],
   [isNull |-> FALSE, elements |-> [tier |-> "db"]],
   [isNull |-> FALSE, elements |-> [tier |-> Null]],
   [isNull |-> FALSE, elements |-> [zone |-> "z1"]],
   [isNull |-> FALSE, elements |-> [tier |-> "db", zone |-> "z1"]],
   [isNull |-> FALSE, elements |-> [tier |-> Null, zone |-> "z1"]]}

\* a list attribute whose elements are strings: null, or a list whose
\* elements are strings or null
StringLists ==
  {[isNull |-> TRUE, elements |-> << >>],
   [isNull |-> FALSE, elements |-> << >>],
   [isNull |-> FALSE, elements |-> <<"p1">>],
   [isNull |-> FALSE, elements |-> <<"p2", "p1">>],
   [isNull |-> FALSE, elements |-> <<"p1", "p1">>],
   [isNull |-> FALSE, elements |-> <<"p1", Null, "p2">>],
   [isNull |-> FALSE, elements |-> <<Null>>]}

\* types.ListNull(types.StringType) and types.MapNull(types.StringType)
NullList == [isNull |-> TRUE, elements |-> << >>]
NullLabels == [isNull |-> TRUE, elements |-> EmptyMap]

\* the image attribute of a node block, and the node_image of the cluster
NodeImageValues == {Null, "", "kindest/node:v1.30.0"}
ClusterImageValues == {Null, "", "kindest/node:v1.31.2"}

\* NodeModel: role, labels, image and kubeadm_config_patches (mounts, port
\* mappings and the structured patches of a node are left out); the blocks
\* that declare a role and labels only
DeclaredNodes ==
  {[role |-> r, labels |-> l, image |-> Null, kubeadm_config_patches |-> NullList] :
     r \in NodeRoles, l \in NodeLabels}

\* the worker blocks that give an image, merge patches or an empty label map
DetailedNodes ==
  {[role |-> "worker", labels |-> NullLabels, image |-> i,
    kubeadm_config_patches |-> NullList] : i \in NodeImageValues}
  \cup {[role |-> "worker", labels |-> NullLabels, image |-> Null,
         kubeadm_config_patches |-> p] : p \in StringLists}
  \cup {[role |-> "worker", labels |-> [isNull |-> FALSE, elements |-> EmptyMap],
         image |-> Null, kubeadm_config_patches |-> NullList]}

NodeModels == DeclaredNodes \cup DetailedNodes

\* NetworkingModel: pod_subnet stands for the string attributes and
\* disable_default_cni for the others
NetworkingModels ==
  {[pod_subnet |-> Null, disable_default_cni |-> Null],
   [pod_subnet |-> "", disable_default_cni |-> "false"],
   [pod_subnet |-> "10.244.0.0/16", disable_default_cni |-> "true"]}

\* PatchJSON6902Model
PatchJSON6902Models ==
  {[group |-> "kubeadm.k8s.io", version |-> "v1beta3",
    kind |-> "ClusterConfiguration", patch |-> "[]"],
   [group |-> Null, version |-> "v1beta3",
    kind |-> "ClusterConfiguration", patch |-> "[]"]}

\* sequences of at most n elements of S
SeqUpTo(S, n) == UNION {[1..k -> S] : k \in 0..n}

\* a model with these node blocks and every other optional argument unset
BareModel(nodes) ==
  [name |-> "a",
   node_image |-> Null,
   networking |-> << >>,
   kubeadm_config_patches |-> NullList,
   kubeadm_config_patches_json6902 |-> << >>,
   nodes |-> nodes]

\* ClusterResourceModel as Create and synthesis read it: networking is the
\* pointer data.Networking (no element: nil), nodes is data.Nodes,
\* kubeadm_config_patches stands for the list and map attributes of strings
\* and kubeadm_config_patches_json6902 for the structured patches
SynthModels ==
  {[BareModel(nodes) EXCEPT !.networking = net] :
     net \in SeqUpTo(NetworkingModels, 1), nodes \in SeqUpTo(DeclaredNodes, MaxNodes)}
  \cup {[BareModel(nodes) EXCEPT !.node_image = img] :
          img \in ClusterImageValues, nodes \in SeqUpTo(DetailedNodes, MaxNodes)}
  \cup {[BareModel(nodes) EXCEPT !.kubeadm_config_patches = p] :
          p \in StringLists, nodes \in SeqUpTo(DetailedNodes, MaxNodes)}
  \cup {[BareModel(nodes) EXCEPT !.kubeadm_config_patches_json6902 = js] :
          js \in SeqUpTo(PatchJSON6902Models, 1),
          nodes \in SeqUpTo(DetailedNodes, MaxNodes)}

\* v1alpha4.Networking{}; assigned is the set of fields an assignment has
\* written, every other field holds its zero value
ZeroNetworking == [PodSubnet |-> "", DisableDefaultCNI |-> FALSE, assigned |-> {}]

\* types.String.ValueString(): "" for a null or unknown value
ValueString(v) == IF v \in {Null, Unknown} THEN "" ELSE v

\* the orders in which a range over the elements of a map can visit its keys
KeyOrders(elements) ==
  {s \in [1..Cardinality(DOMAIN elements) -> DOMAIN elements] :
     \A i, j \in DOMAIN s : i # j => s[i] # s[j]}

\* for k, v := range node.Labels.Elements() { labels[k] = strVal.ValueString() }
\* after the first i keys of the order
RECURSIVE RangeLabels(_, _, _)
RangeLabels(elements, order, i) ==
  IF i = 0 THEN EmptyMap
  ELSE LET acc == RangeLabels(elements, order, i - 1)
       IN  [k \in DOMAIN acc \cup {order[i]} |->
              IF k = order[i] THEN ValueString(elements[k]) ELSE acc[k]]

\* for _, elem := range ...KubeadmConfigPatches.Elements() {
\*   if strVal, ok := elem.(types.String); ok && !strVal.IsNull() {
\*     patches = append(patches, strVal.ValueString()) } }
\* after the first i elements
RECURSIVE RangePatches(_, _)
RangePatches(elements, i) ==
  IF i = 0 THEN << >>
  ELSE LET acc == RangePatches(elements, i - 1)
       IN  IF elements[i] # Null
           THEN Append(acc, ValueString(elements[i]))
           ELSE acc

\* a string list carried over back to front
StringSlice_reversed(list) ==
  IF ~list.isNull /\ Len(list.elements) > 0
  THEN LET patches == RangePatches(list.elements, Len(list.elements))
       IN  [i \in 1..Len(patches) |-> patches[Len(patches) + 1 - i]]
  ELSE << >>

\* the string list of a model as the spec carries it: nil (no element) unless
\* the list is non-null and has an element
StringSlice(list) ==
  IF ~list.isNull /\ Len(list.elements) > 0
  THEN RangePatches(list.elements, Len(list.elements))
  ELSE << >>

\* patches[i] = v1alpha4.PatchJSON6902{Group: p.Group.ValueString(), ...}
PatchJSON6902(p) ==
  [Group |-> ValueString(p.group),
   Version |-> ValueString(p.version),
   Kind |-> ValueString(p.kind),
   Patch |-> ValueString(p.patch)]

\* a buildNetworkingConfig that sets every string that is not null
buildNetworkingConfig_nonNull(net) ==
  [PodSubnet |-> IF net.pod_subnet # Null THEN net.pod_subnet ELSE "",
   DisableDefaultCNI |-> IF net.disable_default_cni # Null
                         THEN net.disable_default_cni = "true" ELSE FALSE,
   assigned |-> {f \in {"PodSubnet", "DisableDefaultCNI"} :
                   \/ f = "PodSubnet" /\ net.pod_subnet # Null
                   \/ f = "DisableDefaultCNI" /\ net.disable_default_cni # Null}]

buildNetworkingConfig(net) ==
  [PodSubnet |-> IF net.pod_subnet # Null /\ net.pod_subnet # ""
                 THEN net.pod_subnet ELSE "",
   DisableDefaultCNI |-> IF net.disable_default_cni # Null
                         THEN net.disable_default_cni = "true" ELSE FALSE,
   assigned |-> {f \in {"PodSubnet", "DisableDefaultCNI"} :
                   \/ f = "PodSubnet" /\ net.pod_subnet # Null /\ net.pod_subnet # ""
                   \/ f = "DisableDefaultCNI" /\ net.disable_default_cni # Null}]

\* a role switch that copies the role string of the block
MapRole_verbatim(role) == role

\* switch node.Role.ValueString() { case "control-plane": ... case "worker": ... }
MapRole(role) ==
  CASE role = "control-plane" -> ControlPlaneRole
    [] role = "worker" -> WorkerRole
    [] OTHER -> NoRole

\* the fields of a v1alpha4.Node that buildNodeConfig(node) assigns
NodeAssigned(node) ==
  {f \in {"Role", "Image", "Labels", "KubeadmConfigPatches"} :
     \/ f = "Role" /\ node.role \in {"control-plane", "worker"}
     \/ f = "Image" /\ node.image # Null /\ node.image # ""
     \/ f = "Labels" /\ ~node.labels.isNull
     \/ f = "KubeadmConfigPatches"
          /\ ~node.kubeadm_config_patches.isNull
          /\ Len(node.kubeadm_config_patches.elements) > 0}

\* a buildNodeConfig that sets the labels of the first visited key only
buildNodeConfig_firstLabel(node, order) ==
  [Role |-> IF node.role # Null THEN MapRole(node.role) ELSE NoRole,
   Image |-> IF node.image # Null /\ node.image # "" THEN node.image ELSE "",
   Labels |-> IF ~node.labels.isNull /\ Len(order) > 0
              THEN RangeLabels(node.labels.elements, order, 1)
              ELSE EmptyMap,
   KubeadmConfigPatches |-> StringSlice(node.kubeadm_config_patches),
   assigned |-> NodeAssigned(node)]

\* buildNodeConfig(node); order is the order of the range over the labels
buildNodeConfig(node, order) ==
  [Role |-> IF node.role # Null THEN MapRole(node.role) ELSE NoRole,
   Image |-> IF node.image # Null /\ node.image # "" THEN node.image ELSE "",
   Labels |-> IF ~node.labels.isNull
              THEN RangeLabels(node.labels.elements, order, Len(order))
              ELSE EmptyMap,
   KubeadmConfigPatches |-> StringSlice(node.kubeadm_config_patches),
   assigned |-> NodeAssigned(node)]

\* v1alpha4.Node{Role: role}
NodeOfRole(role) ==
  [Role |-> role, Image |-> "", Labels |-> EmptyMap,
   KubeadmConfigPatches |-> << >>, assigned |-> {"Role"}]

\* the fields of the v1alpha4.Cluster that buildClusterConfig(data) assigns
\* apart from Name and Nodes
ClusterAssigned(data) ==
  {f \in {"Networking", "KubeadmConfigPatches", "KubeadmConfigPatchesJSON6902"} :
     \/ f = "Networking" /\ Len(data.networking) # 0
     \/ f = "KubeadmConfigPatches"
          /\ ~data.kubeadm_config_patches.isNull
          /\ Len(data.kubeadm_config_patches.elements) > 0
     \/ f = "KubeadmConfigPatchesJSON6902"
          /\ Len(data.kubeadm_config_patches_json6902) > 0}

\* a synthesis whose default for a model without node blocks is one node
buildClusterConfig_single(data, orders) ==
  [Name |-> ValueString(data.name),
   Networking |-> IF Len(data.networking) # 0
                  THEN buildNetworkingConfig(data.networking[1])
                  ELSE ZeroNetworking,
   KubeadmConfigPatches |-> StringSlice(data.kubeadm_config_patches),
   KubeadmConfigPatchesJSON6902 |->
     [i \in 1..Len(data.kubeadm_config_patches_json6902) |->
        PatchJSON6902(data.kubeadm_config_patches_json6902[i])],
   Nodes |-> IF Len(data.nodes) > 0
             THEN [i \in 1..Len(data.nodes) |->
                     buildNodeConfig(data.nodes[i], orders[i])]
             ELSE <<NodeOfRole(ControlPlaneRole)>>,
   assigned |-> ClusterAssigned(data)]

\* buildClusterConfig(data); orders[i] is the order of the range over the
\* labels of the i-th node block
buildClusterConfig(data, orders) ==
  [Name |-> ValueString(data.name),
   Networking |-> IF Len(data.networking) # 0
                  THEN buildNetworkingConfig(data.networking[1])
                  ELSE ZeroNetworking,
   KubeadmConfigPatches |-> StringSlice(data.kubeadm_config_patches),
   KubeadmConfigPatchesJSON6902 |->
     [i \in 1..Len(data.kubeadm_config_patches_json6902) |->
        PatchJSON6902(data.kubeadm_config_patches_json6902[i])],
   Nodes |-> IF Len(data.nodes) > 0
             THEN [i \in 1..Len(data.nodes) |->
                     buildNodeConfig(data.nodes[i], orders[i])]
             ELSE <<NodeOfRole(ControlPlaneRole), NodeOfRole(WorkerRole)>>,
   assigned |-> ClusterAssigned(data)]

\* the range orders a call of buildClusterConfig can meet
SynthOrders(data) ==
  {o \in [1..Len(data.nodes) -> UNION {KeyOrders(l.elements) : l \in NodeLabels}] :
     \A i \in 1..Len(data.nodes) : o[i] \in KeyOrders(data.nodes[i].labels.elements)}

NoConfig ==
  [Name |-> "", Networking |-> ZeroNetworking, KubeadmConfigPatches |-> << >>,
   KubeadmConfigPatchesJSON6902 |-> << >>, Nodes |-> << >>, assigned |-> {}]

\* no cluster.CreateWithNodeImage among the create options
NoOption == "<none>"

\* if !data.NodeImage.IsNull() && data.NodeImage.ValueString() != "" {
\*   createOpts = append(createOpts, cluster.CreateWithNodeImage(...)) }
NodeImageOption(data) ==
  IF data.node_image # Null /\ data.node_image # ""
  THEN data.node_image
  ELSE NoOption

\* the image each node is created from by r.provider.Create(name, createOpts...):
\* kind's CreateWithNodeImage sets the image of every node of the configuration,
\* without it a node keeps the image of the configuration, and "" is kind's
\* default image
CreatedImages(cfg, option) ==
  [i \in 1..Len(cfg.Nodes) |->
     IF option # NoOption THEN option ELSE cfg.Nodes[i].Image]

SynthInit ==
  /\ backend = [n \in Names |-> NoCluster]
  /\ lock = NoLock
  /\ tracked = [n \in Names |-> NoState]
  /\ planned = "none"
  /\ resp = NoResp
  /\ waitLoop = GateOff
  /\ par = ParOff
  /\ \E m \in SynthModels :
       synth = [pc |-> "model", model |-> m, cfg |-> NoConfig,
                option |-> NoOption, created |-> << >>, again |-> NoConfig]

\* Create from cfg := r.buildClusterConfig(&data) to
\* r.provider.Create(clusterName, createOpts...)
Synthesize ==
  /\ synth.pc = "model"
  /\ \E orders \in SynthOrders(synth.model) :
       LET cfg == buildClusterConfig(synth.model, orders)
           option == NodeImageOption(synth.model)
       IN  synth' = [synth EXCEPT !.pc = "built",
                                  !.cfg = cfg,
                                  !.option = option,
                                  !.created = CreatedImages(cfg, option)]
  /\ UNCHANGED <<mainVars, waitLoop, par>>

\* the same model synthesized a second time
SynthesizeAgain ==
  /\ synth.pc = "built"
  /\ \E orders \in SynthOrders(synth.model) :
       synth' = [synth EXCEPT !.pc = "rebuilt",
                              !.again = buildClusterConfig(synth.model, orders)]
  /\ UNCHANGED <<mainVars, waitLoop, par>>

SynthNext ==
  \/ Synthesize
  \/ SynthesizeAgain

SpecSynth == SynthInit /\ [][SynthNext]_vars


(* ---------------------------------------------------------------------- *)
(* Reading a response                                                      *)
(* ---------------------------------------------------------------------- *)

\* the positions in the call log of the calls named c
CallsTo(c) == {i \in 1..Len(resp.calls) : resp.calls[i].call = c}

\* the operation called the backend's Create and got err back
BackendCreateReturned(err) ==
  \E i \in CallsTo("Create") : resp.calls[i].ret = err

BackendCreateFailed ==
  \E i \in CallsTo("Create") : resp.calls[i].ret # NoErr

\* the readiness wait was run and returned an error
GateFailed ==
  \E i \in CallsTo("waitForAllNodesReady") : resp.calls[i].ret # NoErr

\* the kubeconfig text the backend returned during the operation, "" if none
BundleReturned ==
  IF \E i \in CallsTo("KubeConfig") : resp.calls[i].ret = NoErr
  THEN resp.calls[CHOOSE i \in CallsTo("KubeConfig") : TRUE].out
  ELSE ""

\* the operation parsed the bundle and the parse failed
ParseFailed ==
  \E i \in CallsTo("yaml.Unmarshal") : resp.calls[i].ret # NoErr

\* the operation parsed the bundle successfully
Parsed ==
  \E i \in CallsTo("yaml.Unmarshal") : resp.calls[i].ret = NoErr

\* the value the bundle holds for an attribute, "" when it lacks one
FromBundle(doc, a) ==
  LET v == CASE a = "endpoint" -> Extract(doc, "clusters", "cluster", "server")
             [] a = "cluster_ca_certificate" -> Extract(doc, "clusters", "cluster", "ca")
             [] a = "client_certificate" -> Extract(doc, "users", "user", "cert")
             [] a = "client_key" -> Extract(doc, "users", "user", "key")
  IN  IF v = Null THEN "" ELSE v

(* ---------------------------------------------------------------------- *)
(* Properties                                                              *)
(* ---------------------------------------------------------------------- *)

\* C1: when the backend create call fails with message m, Create reports one
\* error whose detail is exactly m and stops: it makes no further call (no
\* credential fetch, no readiness wait) and sets no state, so the resource is
\* not tracked.
C1_CreateFailureAborts ==
  (resp.op = "Create" /\ BackendCreateFailed) =>
    /\ \E m \in CreateErrs \cup {AlreadyExists} :
         /\ BackendCreateReturned(m)
         /\ resp.diags = <<Diag("Failed to create cluster", m)>>
    /\ CallsTo("KubeConfig") = {}
    /\ CallsTo("waitForAllNodesReady") = {}
    /\ resp.state = NoState
    /\ tracked[resp.name] = NoState

C1_Witness ==
  /\ resp.op = "Create"
  /\ BackendCreateReturned("image not found")
  /\ resp.diags = <<Diag("Failed to create cluster", "image not found")>>

\* C2: when backend create succeeds and the readiness wait then fails, Create
\* reports the "waiting for nodes" error and its result records the resource
\* in tracked state.
C2_GateFailureKeepsResource ==
  (resp.op = "Create" /\ GateFailed) =>
    /\ Len(resp.diags) = 1
    /\ resp.diags[1].summary = "Failed waiting for nodes to be ready"
    /\ resp.state # NoState
    /\ tracked[resp.name] # NoState

\* C3: no path of Create calls the backend's Delete: once backend create has
\* succeeded, the cluster is in the inventory when Create returns, whatever
\* fails afterwards.
C3_CreateNeverRollsBack ==
  (resp.op = "Create" /\ BackendCreateReturned(NoErr)) =>
    /\ CallsTo("Delete") = {}
    /\ resp.name \in Inventory(backend)

C3_Witness ==
  /\ resp.op = "Create"
  /\ BackendCreateReturned(NoErr)
  /\ HasError(resp.diags)
  /\ resp.name \in Inventory(backend)


\* the configuration attributes that differ between a configuration and a state
Changed(cfg, st) == {a \in ConfigAttrs : cfg[a] # st[a]}

WaitAttrs == {"wait_for_ready", "wait_for_nodes_ready"}

C6_ReadIdempotent ==
  \A n \in Managed : \A env \in ReadEnvs :
    tracked[n] # NoState =>
      LET first == Read(backend, lock, tracked[n], env)
      IN  first.resp.state # NoState =>
            Read(first.backend, first.lock, first.resp.state, env).resp.state
              = first.resp.state

C6_Witness ==
  /\ resp.op = "Read"
  /\ ~HasError(resp.diags)
  /\ resp.state # NoState
  /\ resp.state # resp.prior
  /\ resp.prior.endpoint \notin {Null, resp.state.endpoint}

\* C7: after every successful Read or Update each of endpoint, CA certificate,
\* client certificate and client key equals the value in the credential
\* bundle returned during that operation, or "" when the bundle lacks it,
\* whatever the prior state or plan held.
C7_BundleValuesFresh ==
  (resp.op \in {"Read", "Update"} /\ ~HasError(resp.diags) /\ resp.state # NoState) =>
    \A a \in BundleAttrs :
      resp.state[a] = FromBundle(yamlUnmarshal(BundleReturned), a)

\* C8: when Create obtains a bundle that parses but has no users section, it
\* raises no parse error and records "" for client certificate and client
\* key; likewise endpoint and CA certificate are "" when the clusters section
\* is missing.
C8_CreateMissingSectionsEmpty ==
  (resp.op = "Create" /\ Parsed) =>
    LET doc == yamlUnmarshal(BundleReturned)
    IN  /\ \A i \in 1..Len(resp.diags) :
             resp.diags[i].summary # "Failed to parse kubeconfig"
        /\ ("users" \notin DOMAIN doc /\ resp.state # NoState) =>
             /\ resp.state.client_certificate = ""
             /\ resp.state.client_key = ""
        /\ ("clusters" \notin DOMAIN doc /\ resp.state # NoState) =>
             /\ resp.state.endpoint = ""
             /\ resp.state.cluster_ca_certificate = ""

\* C9: when the bundle fails to parse, Create, Read or Update reports the
\* parse error and aborts: the state is the one from before the operation,
\* and in Create the readiness wait is not run although the cluster exists.
C9_ParseFailureAborts ==
  (resp.op \in {"Create", "Read", "Update"} /\ ParseFailed) =>
    /\ resp.diags = <<Diag("Failed to parse kubeconfig", YamlErr)>>
    /\ resp.state = resp.prior
    /\ tracked[resp.name] = resp.prior
    /\ CallsTo("waitForAllNodesReady") = {}
    /\ (resp.op = "Create" => resp.name \in Inventory(backend))

C9_Witness ==
  /\ resp.op = "Create"
  /\ ParseFailed
  /\ resp.plan.wait_for_nodes_ready = "true"
  /\ resp.name \in Inventory(backend)
  /\ tracked[resp.name] = NoState

\* C10: Update and Read never call the backend's Create or Delete and never
\* run the stale-lock cleanup: the inventory and the lock file are the same
\* after the call as before it, on success and on error.
C10_UpdateReadFrame ==
  [][(resp.op = "none" /\ resp'.op \in {"Read", "Update"}) =>
       /\ backend' = backend
       /\ lock' = lock
       /\ \A i \in 1..Len(resp'.calls) :
            resp'.calls[i].call \notin {"Create", "Delete", "cleanupStaleLockFile"}]_vars

C10_Witness ==
  /\ resp.op = "Update"
  /\ lock # NoLock
  /\ lock > StaleAfter
  /\ resp.name \in Inventory(backend)

\* C11: Delete runs the stale-lock cleanup first and then calls the backend's
\* Delete exactly once, for the name of the resource. When that call fails
\* with message m, Delete reports one error whose detail is m, makes no
\* second call, and the resource stays tracked with the state it had (the
\* cluster is still in the inventory); when it succeeds the resource is no
\* longer tracked.
C11_DeleteOnceNoRetry ==
  resp.op = "Delete" =>
    /\ Len(resp.calls) = 2
    /\ resp.calls[1].call = "cleanupStaleLockFile"
    /\ resp.calls[2].call = "Delete"
    /\ resp.calls[2].name = resp.prior.name
    /\ resp.name = resp.prior.name
    /\ IF resp.calls[2].ret # NoErr
       THEN /\ resp.diags = <<Diag("Failed to delete cluster", resp.calls[2].ret)>>
            /\ resp.calls[2].ret \in DeleteErrs
            /\ tracked[resp.name] = resp.prior
            /\ tracked[resp.name] # NoState
       ELSE /\ resp.diags = << >>
            /\ tracked[resp.name] = NoState
            /\ resp.name \notin Inventory(backend)

C11_Witness ==
  /\ resp.op = "Delete"
  /\ \E i \in CallsTo("Delete") : resp.calls[i].ret # NoErr
  /\ HasError(resp.diags)
  /\ tracked[resp.name] # NoState
  /\ resp.name \in Inventory(backend)

\* C12: the wait returns nil only after a List call that returned at least
\* one node with every node Ready; a List call that failed, returned no node
\* or returned a node that is not Ready never ends the wait with nil.
C12_SuccessNeedsReadyPoll ==
  (waitLoop.pc = "done" /\ waitLoop.result = NoErr) =>
    /\ waitLoop.polls >= 1
    /\ waitLoop.last # NoPoll
    /\ waitLoop.last # PollErr
    /\ Len(waitLoop.last.nodes) >= 1
    /\ \A i \in 1..Len(waitLoop.last.nodes) : waitLoop.last.nodes[i] = TRUE

C12_Witness ==
  /\ waitLoop.pc = "done"
  /\ waitLoop.result = NoErr
  /\ waitLoop.last = [nodes |-> <<TRUE>>]
  /\ [nodes |-> << >>] \in waitLoop.seen
  /\ [nodes |-> <<TRUE, FALSE>>] \in waitLoop.seen

\* C13: for every timeout, a wait in which no List call ever returns all
\* nodes Ready and the context is never cancelled ends, and ends with the
\* timeout error that names the timeout; the wait never goes on for ever.
\* This is the statement as given, and it fails when the client set-up fails.
C13_NeverReadyTimesOut ==
  <>(/\ waitLoop.pc = "done"
     /\ (~waitLoop.ctxDone /\ \A poll \in waitLoop.seen : ~AllNodesReady(poll)) =>
          waitLoop.result = TimeoutErr(waitLoop.timeout))

\* C13, amended: the same once the client set-up has succeeded and the loop
\* is entered; a wait whose set-up fails ends at once with the set-up error.
C13_NeverReadyTimesOutInLoop ==
  <>(/\ waitLoop.pc = "done"
     /\ (~waitLoop.ctxDone /\ \A poll \in waitLoop.seen : ~AllNodesReady(poll)) =>
          \/ waitLoop.result = TimeoutErr(waitLoop.timeout)
          \/ /\ waitLoop.result \in GateSetupErrs
             /\ waitLoop.polls = 0
             /\ waitLoop.now = 0)

C13_Witness ==
  /\ waitLoop.pc = "done"
  /\ ~waitLoop.ctxDone
  /\ waitLoop.timeout = MaxWait
  /\ waitLoop.polls >= 2
  /\ waitLoop.result = TimeoutErr(MaxWait)
  /\ \A poll \in waitLoop.seen : ~AllNodesReady(poll)

\* C14: once the context is cancelled while the wait is in its loop (in the
\* select or in a List call), the wait issues no further List call and
\* returns the context's error, no later than one poll interval after the
\* cancellation.
C14_CancelStopsGate ==
  (waitLoop.ctxDone /\ waitLoop.cancelIn \in {"select", "poll"}) =>
    /\ waitLoop.late = 0
    /\ waitLoop.pc = "done" =>
         /\ waitLoop.result = CtxErr
         /\ waitLoop.now <= waitLoop.cancelAt + PollInterval

\* C15: every call of the wait ends with exactly one of nil, the timeout
\* error or the context's error, and with nothing else. This is the
\* statement as given; it fails when the client set-up fails.
C15_ThreeOutcomes ==
  waitLoop.pc = "done" =>
    waitLoop.result \in {NoErr, TimeoutErr(waitLoop.timeout), CtxErr}

\* C15, amended: the wait ends with one of nil, the timeout error, the
\* context's error, or one of the five set-up errors; a set-up error is
\* returned before the ticker starts and before any List call, and the loop
\* itself ends only with one of the first three (a failed List call is never
\* the result).
C15_OutcomesWithSetup ==
  waitLoop.pc = "done" =>
    /\ waitLoop.result \in
         {NoErr, TimeoutErr(waitLoop.timeout), CtxErr} \cup GateSetupErrs
    /\ waitLoop.result \in GateSetupErrs =>
         (waitLoop.polls = 0 /\ waitLoop.now = 0 /\ waitLoop.seen = {})
    /\ waitLoop.polls > 0 =>
         waitLoop.result \in {NoErr, TimeoutErr(waitLoop.timeout), CtxErr}

C15_Witness ==
  /\ waitLoop.pc = "done"
  /\ waitLoop.result = "failed to build kubeconfig"
  /\ waitLoop.timeout = PollInterval

\* the entry of the stale-lock cleanup in the call log of a response
CleanupCall(r) == r.calls[CHOOSE i \in 1..Len(r.calls) :
                            r.calls[i].call = "cleanupStaleLockFile"]

\* a Create or a Delete is called: both start with the stale-lock cleanup,
\* and nothing else in them touches the lock file
CleanupRuns ==
  /\ resp.op = "none"
  /\ resp'.op \in {"Create", "Delete"}

\* C16: the cleanup never removes a lock file whose age is 60 seconds or
\* less, and a lock file older than 60 seconds is gone when the cleanup
\* returns. This is the statement as given; it fails when the home directory
\* lookup, the stat or the removal fails.
C16_StaleLockRemoved ==
  [][CleanupRuns =>
       /\ (lock # NoLock /\ lock <= StaleAfter) => lock' = lock
       /\ (lock # NoLock /\ lock > StaleAfter) => lock' = NoLock]_vars

\* C16, amended: the cleanup never removes a lock file whose age is 60
\* seconds or less; a lock file older than 60 seconds is gone when the
\* cleanup returns if the home directory lookup, the stat and the removal
\* all succeed, and is left as it was if one of them fails.
C16_StaleLockRemovedIfPossible ==
  [][CleanupRuns =>
       /\ (lock # NoLock /\ lock <= StaleAfter) => lock' = lock
       /\ (lock # NoLock /\ lock > StaleAfter) =>
            LET c == CleanupCall(resp')
            IN  IF c.homeOk /\ c.statOk /\ c.removeOk
                THEN lock' = NoLock
                ELSE lock' = lock
       /\ lock = NoLock => lock' = NoLock]_vars

C16_Witness ==
  /\ resp.op = "Create"
  /\ planned = "create"
  /\ CleanupCall(resp).age > StaleAfter
  /\ lock = NoLock
  /\ CleanupCall(resp).homeOk
  /\ CleanupCall(resp).statOk
  /\ CleanupCall(resp).removeOk
  /\ resp.name \in Inventory(backend)

\* what a handler call leaves apart from the lock file and the entry of the
\* cleanup in the call log
ApartFromLock(r) ==
  [backend |-> r.backend,
   resp |-> [r.resp EXCEPT !.calls = SelectSeq(r.resp.calls,
                LAMBDA c : c.call # "cleanupStaleLockFile")]]

\* C17: the stale-lock cleanup never fails its caller. Whatever lock file
\* there is and whatever the home directory lookup, the stat and the removal
\* do, a Create or a Delete makes the same calls, reports the same
\* diagnostics, sets the same state and leaves the same inventory as the
\* same call made with no lock file, and the cleanup's own entry in the call
\* log carries no error.
C17_CleanupNeverFailsCaller ==
  (resp = NoResp) =>
    \A n \in Managed :
      /\ tracked[n] = NoState =>
           \A cfg \in Configs : \A env \in CreateEnvs(lock, cfg.wait_for_ready) :
             LET plan == PlanData(n, cfg, NoState)
                 r == Create(backend, lock, plan, env)
             IN  /\ ApartFromLock(r) = ApartFromLock(Create(backend, NoLock, plan, env))
                 /\ r.resp.calls[1].call = "cleanupStaleLockFile"
                 /\ r.resp.calls[1].ret = NoErr
      /\ tracked[n] # NoState =>
           \A env \in DeleteEnvs(lock) :
             LET r == Delete(backend, lock, tracked[n], env)
             IN  /\ ApartFromLock(r) = ApartFromLock(Delete(backend, NoLock, tracked[n], env))
                 /\ r.resp.calls[1].call = "cleanupStaleLockFile"
                 /\ r.resp.calls[1].ret = NoErr

C17_Witness ==
  /\ resp.op = "Delete"
  /\ planned = "destroy"
  /\ CleanupCall(resp).age > StaleAfter
  /\ ~CleanupCall(resp).removeOk
  /\ lock = CleanupCall(resp).age
  /\ resp.diags = << >>
  /\ tracked[resp.name] = NoState
  /\ resp.name \notin Inventory(backend)

\* the handler call of n made alone: the whole handler, from the inventory
\* and the lock file the two parallel calls started with
Alone(n) ==
  LET p == par.procs[n]
  IN  CASE p.op = "Create" -> Create(par.backend0, par.lock0, ParPlan(n), p.env)
        [] p.op = "Read"   -> Read(par.backend0, par.lock0, ParPrior(n), p.env)
        [] p.op = "Delete" -> Delete(par.backend0, par.lock0, ParPrior(n), p.env)

\* the names of the calls in a call log
CallNames(calls) == [i \in 1..Len(calls) |-> calls[i].call]

\* C18: handler calls for two different names that run in parallel do not
\* interfere. In every interleaving of their steps, the steps of the two
\* stale-lock cleanups on the one lock file included, a call that has
\* returned has reported the diagnostics, set the state and made the calls
\* it makes when it runs alone, and the cluster of its name and the state
\* Terraform tracks for it are those of the call made alone.
C18_NoInterference ==
  par.pc = "on" =>
    \A n \in Names :
      par.procs[n].pc = "done" =>
        LET p == par.procs[n]
            alone == Alone(n)
        IN  /\ p.diags = alone.resp.diags
            /\ p.state = alone.resp.state
            /\ p.calls = CallNames(alone.resp.calls)
            /\ backend[n] = alone.backend[n]
            /\ tracked[n] = ParTracked(p.op, alone.resp.state)

\* both calls found the lock file stale, one removed it and the removal of
\* the other failed; both returned
C18_Witness ==
  /\ par.pc = "on"
  /\ par.lock0 # NoLock
  /\ par.lock0 > StaleAfter
  /\ lock = NoLock
  /\ par.procs["a"].removed = "failed"
  /\ par.procs["b"].removed = "removed"
  /\ \A n \in Names :
       /\ par.procs[n].pc = "done"
       /\ par.procs[n].op = "Create"
       /\ par.procs[n].env.homeOk
       /\ par.procs[n].env.statOk
       /\ par.procs[n].env.removeOk
       /\ par.procs[n].diags = << >>
       /\ par.backend0[n] = NoCluster
       /\ backend[n] # NoCluster
       /\ tracked[n] # NoState

\* C19: synthesis gives a configuration for every model, and the same one
\* each time; for a model without node blocks the nodes are exactly a
\* control-plane node followed by a worker node, and when such a model has
\* no networking block either, the networking of the configuration is the
\* zero value (nothing overridden).
C19_DefaultNodes ==
  /\ synth.pc = "model" => ENABLED Synthesize
  /\ synth.pc = "rebuilt" => synth.again = synth.cfg
  /\ (synth.pc \in {"built", "rebuilt"} /\ Len(synth.model.nodes) = 0) =>
       /\ Len(synth.cfg.Nodes) = 2
       /\ synth.cfg.Nodes[1].Role = "control-plane"
       /\ synth.cfg.Nodes[2].Role = "worker"
       /\ \A i \in 1..2 : DOMAIN synth.cfg.Nodes[i].Labels = {}
       /\ Len(synth.model.networking) = 0 =>
            /\ synth.cfg.Networking.PodSubnet = ""
            /\ synth.cfg.Networking.DisableDefaultCNI = FALSE

C19_Witness ==
  /\ synth.pc = "rebuilt"
  /\ Len(synth.model.nodes) = 0
  /\ Len(synth.model.networking) = 0
  /\ Len(synth.cfg.Nodes) = 2

\* the label mapping a node block declares: no label when the attribute is null
Declared(labels) == IF labels.isNull THEN EmptyMap ELSE labels.elements

\* C20: for a model with N >= 1 node blocks the configuration has N nodes,
\* and the i-th node has the role string and exactly the labels (keys and
\* values) of the i-th block. This is the statement as given; it fails for
\* a role other than control-plane and worker and for a label whose value
\* is null.
C20_NodesAsDeclared ==
  (synth.pc \in {"built", "rebuilt"} /\ Len(synth.model.nodes) >= 1) =>
    /\ Len(synth.cfg.Nodes) = Len(synth.model.nodes)
    /\ \A i \in 1..Len(synth.model.nodes) :
         /\ synth.cfg.Nodes[i].Role = synth.model.nodes[i].role
         /\ synth.cfg.Nodes[i].Labels = Declared(synth.model.nodes[i].labels)

\* C20, amended: the configuration has N nodes, in the order of the blocks;
\* the i-th node has the role of the i-th block when that is control-plane
\* or worker and no role otherwise, and it has the label keys of the i-th
\* block, each with the declared value, a null value being carried as the
\* empty string.
C20_NodesAsDeclaredKnownRoles ==
  (synth.pc \in {"built", "rebuilt"} /\ Len(synth.model.nodes) >= 1) =>
    /\ Len(synth.cfg.Nodes) = Len(synth.model.nodes)
    /\ \A i \in 1..Len(synth.model.nodes) :
         LET node == synth.model.nodes[i]
             n == synth.cfg.Nodes[i]
         IN  /\ node.role \in {"control-plane", "worker"} => n.Role = node.role
             /\ node.role \notin {"control-plane", "worker"} => n.Role = ""
             /\ DOMAIN n.Labels = DOMAIN Declared(node.labels)
             /\ \A k \in DOMAIN n.Labels :
                  n.Labels[k] = IF Declared(node.labels)[k] = Null THEN ""
                                ELSE Declared(node.labels)[k]

C20_Witness ==
  /\ synth.pc = "built"
  /\ Len(synth.model.nodes) = MaxNodes
  /\ synth.model.nodes[1].role = "worker"
  /\ synth.model.nodes[2].role = "control-plane"
  /\ synth.model.nodes[1].labels.elements = [tier |-> "db", zone |-> "z1"]
  /\ synth.model.nodes[2].labels.elements = [tier |-> "db"]
  /\ synth.cfg.Nodes[1].Role = "worker"
  /\ synth.cfg.Nodes[1].Labels = [tier |-> "db", zone |-> "z1"]
  /\ synth.cfg.Nodes[2].Role = "control-plane"
  /\ synth.cfg.Nodes[2].Labels = [tier |-> "db"]

\* C30: when the backend's List fails during Read, Read reports one error
\* with the backend's message, makes no further call, and the resource stays
\* tracked with every field as it was, whether or not its cluster exists; a
\* failed List is never taken for a missing cluster.
C30_ListFailureKeepsState ==
  (resp.op = "Read" /\ \E i \in CallsTo("List") : resp.calls[i].ret # NoErr) =>
    /\ Len(resp.calls) = 1
    /\ resp.calls[1].ret \in ListErrs
    /\ resp.diags = <<Diag("Failed to list clusters", resp.calls[1].ret)>>
    /\ resp.state = resp.prior
    /\ resp.prior # NoState
    /\ tracked[resp.name] = resp.prior

C30_Witness ==
  /\ resp.op = "Read"
  /\ \E i \in CallsTo("List") : resp.calls[i].ret # NoErr
  /\ resp.name \notin Inventory(backend)
  /\ tracked[resp.name] # NoState
  /\ tracked[resp.name].endpoint # Null

\* C29: Update never lists the clusters. When the cluster of the resource is
\* gone, the kubeconfig cannot be fetched and Update reports that error and
\* nothing else; it sets no state, so the resource stays tracked with the
\* state it had before the call.
C29_UpdateOfMissingCluster ==
  resp.op = "Update" =>
    /\ CallsTo("List") = {}
    /\ resp.name \notin Inventory(backend) =>
         /\ Len(resp.calls) = 1
         /\ resp.calls[1].call = "KubeConfig"
         /\ resp.calls[1].ret = NoNodesErr
         /\ resp.diags = <<Diag("Failed to get kubeconfig", NoNodesErr)>>
         /\ resp.state = resp.prior
         /\ resp.prior # NoState
         /\ tracked[resp.name] = resp.prior

C29_Witness ==
  /\ resp.op = "Update"
  /\ planned = "update"
  /\ resp.name \notin Inventory(backend)
  /\ HasError(resp.diags)
  /\ tracked[resp.name] # NoState
  /\ resp.plan.wait_for_ready # resp.prior.wait_for_ready

\* the synthesis has returned a configuration for the model
Built == synth.pc \in {"built", "rebuilt"}

\* C27: a node block whose role is exactly "control-plane" or "worker" is
\* synthesized with that role; a node block with any other role string still
\* yields the node at its position, with the role field left unset, and the
\* synthesis raises no error: it returns a configuration for every model
C27_RoleByExactMatch ==
  /\ synth.pc = "model" => ENABLED Synthesize
  /\ (Built /\ Len(synth.model.nodes) >= 1) =>
       /\ Len(synth.cfg.Nodes) = Len(synth.model.nodes)
       /\ \A i \in 1..Len(synth.model.nodes) :
            LET node == synth.model.nodes[i]
                n == synth.cfg.Nodes[i]
            IN  /\ node.role \in {"control-plane", "worker"} =>
                     /\ n.Role = node.role
                     /\ "Role" \in n.assigned
                /\ node.role \notin {"control-plane", "worker"} =>
                     /\ n.Role = NoRole
                     /\ "Role" \notin n.assigned
                /\ DOMAIN n.Labels = DOMAIN node.labels.elements

C27_Witness ==
  /\ synth.pc = "built"
  /\ Len(synth.model.nodes) = 2
  /\ synth.model.nodes[1].role = "etcd"
  /\ synth.model.nodes[1].labels.elements = [zone |-> "z1"]
  /\ synth.model.nodes[2].role = "worker"
  /\ synth.cfg.Nodes[1].Role = ""
  /\ synth.cfg.Nodes[1].Labels = [zone |-> "z1"]
  /\ synth.cfg.Nodes[2].Role = "worker"

\* a list of merge-patches: a list attribute whose elements are all strings
IsPatchList(list) ==
  \A i \in 1..Len(list.elements) : list.elements[i] # Null

NotNull(v) == v # Null

\* C21: for every list of N merge-patches in the model, at cluster level and
\* at node level, the synthesized patch list is the same N elements in the
\* same order, none dropped, duplicated or reordered; of a list that also
\* holds null elements, the elements that are patches are carried over in
\* their order
C21_PatchListsPreserved ==
  Built =>
    /\ IsPatchList(synth.model.kubeadm_config_patches) =>
         synth.cfg.KubeadmConfigPatches = synth.model.kubeadm_config_patches.elements
    /\ synth.cfg.KubeadmConfigPatches =
         SelectSeq(synth.model.kubeadm_config_patches.elements, NotNull)
    /\ Len(synth.model.nodes) >= 1 =>
         /\ Len(synth.cfg.Nodes) = Len(synth.model.nodes)
         /\ \A i \in 1..Len(synth.model.nodes) :
              LET list == synth.model.nodes[i].kubeadm_config_patches
                  patches == synth.cfg.Nodes[i].KubeadmConfigPatches
              IN  /\ IsPatchList(list) => patches = list.elements
                  /\ patches = SelectSeq(list.elements, NotNull)

C21_Witness ==
  /\ synth.pc = "built"
  /\ synth.model.kubeadm_config_patches.elements = <<"p2", "p1">>
  /\ synth.cfg.KubeadmConfigPatches = <<"p2", "p1">>
  /\ Len(synth.model.nodes) = 2
  /\ synth.model.nodes[1].kubeadm_config_patches.elements = <<"p1", "p1">>
  /\ synth.model.nodes[2].kubeadm_config_patches.elements = <<"p1">>
  /\ synth.cfg.Nodes[1].KubeadmConfigPatches = <<"p1", "p1">>
  /\ synth.cfg.Nodes[2].KubeadmConfigPatches = <<"p1">>

ImageSet(v) == v \notin {Null, ""}

\* C22: a node block's image, when set, wins over the cluster-level
\* node_image for that node: the node is created from its own image even
\* when node_image is set too; when neither is set the node's image field
\* is empty and no image override is passed to the backend's create
C22_NodeImageWins ==
  (Built /\ Len(synth.model.nodes) >= 1) =>
    /\ Len(synth.created) = Len(synth.model.nodes)
    /\ \A i \in 1..Len(synth.model.nodes) :
         LET node == synth.model.nodes[i]
         IN  /\ ImageSet(node.image) => synth.created[i] = node.image
             /\ (~ImageSet(node.image) /\ ~ImageSet(synth.model.node_image)) =>
                  /\ synth.cfg.Nodes[i].Image = ""
                  /\ synth.option = NoOption

\* C25: a List call of the readiness wait that returns an error is never
\* surfaced: the step that receives it goes back to the select with no
\* result, the next tick starts another List call, and the only errors the
\* wait can return once a List call has failed are the timeout error and the
\* error of the cancelled context
C25_PollErrorNotSurfaced ==
  /\ [][(waitLoop.pc = "poll" /\ waitLoop'.pc # "poll" /\ waitLoop'.last = PollErr) =>
          /\ waitLoop'.pc = "select"
          /\ waitLoop'.result = ""
          /\ waitLoop'.polls = waitLoop.polls]_vars
  /\ []((waitLoop.pc = "select" /\ waitLoop.last = PollErr /\ waitLoop.tick) =>
          ENABLED GateTick)
  /\ []((waitLoop.pc = "done" /\ PollErr \in waitLoop.seen) =>
          waitLoop.result \in {NoErr, CtxErr, TimeoutErr(waitLoop.timeout)})

C25_Witness ==
  /\ waitLoop.pc = "done"
  /\ waitLoop.polls = 2
  /\ PollErr \in waitLoop.seen
  /\ waitLoop.last # PollErr
  /\ waitLoop.result = NoErr

\* C28 as stated: the first List call is issued only after a full poll
\* interval, and a wait whose timeout is shorter than the interval ends with
\* the timeout error
C28_ShortTimeoutTimesOut ==
  /\ waitLoop.polls > 0 => waitLoop.now >= PollInterval
  /\ (waitLoop.pc = "done" /\ waitLoop.timeout < PollInterval) =>
       waitLoop.result = TimeoutErr(waitLoop.timeout)

\* C28, amended: the first List call is issued only after a full poll
\* interval, never at entry; a wait whose timeout is shorter than the
\* interval, 0 included, issues no List call and cannot return success: it
\* ends with the timeout error unless its set-up failed or its context was
\* cancelled, and then with that error
C28_ShortTimeoutNeverSucceeds ==
  /\ waitLoop.polls > 0 => waitLoop.now >= PollInterval
  /\ waitLoop.pc \in {"setup", "select", "poll", "done"} /\ waitLoop.timeout < PollInterval =>
       /\ waitLoop.polls = 0
       /\ waitLoop.pc # "poll"
       /\ waitLoop.pc = "done" =>
            /\ waitLoop.result # NoErr
            /\ waitLoop.result \in
                 {TimeoutErr(waitLoop.timeout), CtxErr} \cup GateSetupErrs
            /\ waitLoop.result = CtxErr => waitLoop.ctxDone
            /\ waitLoop.result \in GateSetupErrs => waitLoop.now = 0

C28_Witness ==
  /\ waitLoop.pc = "done"
  /\ waitLoop.timeout = PollInterval - 2
  /\ waitLoop.now = waitLoop.timeout
  /\ ~waitLoop.ctxDone
  /\ waitLoop.polls = 0
  /\ waitLoop.result = TimeoutErr(waitLoop.timeout)

\* C23: the Read of the data source returns exactly the backend's inventory:
\* its clusters list has the length, the elements and the order of the
\* result of the backend's List, which names every cluster once, and its id
\* is "kind-clusters"; when List fails it reports the error and sets no state
C23_DataSourceListsInventory ==
  resp.op = "DataRead" =>
    /\ Len(resp.calls) = 1
    /\ resp.calls[1].call = "List"
    /\ resp.calls[1].ret = NoErr =>
         /\ resp.diags = << >>
         /\ resp.state.id = "kind-clusters"
         /\ resp.state.clusters = resp.calls[1].out
         /\ Len(resp.state.clusters) = Cardinality(Inventory(backend))
         /\ {resp.state.clusters[i] : i \in 1..Len(resp.state.clusters)}
              = Inventory(backend)
    /\ resp.calls[1].ret # NoErr =>
         /\ resp.calls[1].ret \in ListErrs
         /\ resp.diags = <<Diag("Failed to list clusters", resp.calls[1].ret)>>
         /\ resp.state = NoState

C23_Witness ==
  /\ resp.op = "DataRead"
  /\ resp.calls[1].out = <<"b", "a">>
  /\ resp.state.clusters = <<"b", "a">>
  /\ resp.diags = << >>

\* the steps of Create in the order of its code
CreateSteps ==
  <<"cleanupStaleLockFile", "buildClusterConfig", "Create", "KubeConfig",
    "yaml.Unmarshal", "waitForAllNodesReady">>

\* C24: Create makes its steps in a fixed order, and a later step runs only
\* if every earlier one succeeded: the stale-lock cleanup, the synthesis, the
\* backend's Create, the extraction of the credentials, the readiness wait,
\* the recording of the state.  The wait is called if and only if the
\* backend's Create and the extraction succeeded and the plan has
\* wait_for_nodes_ready true, and it is given the kubeconfig just fetched
\* and the timeout that was given to the backend's Create
C24_CreateStepsInOrder ==
  resp.op = "Create" =>
    LET names == CallNames(resp.calls)
        n     == Len(resp.calls)
        extracted == \E i \in CallsTo("yaml.Unmarshal") : resp.calls[i].ret = NoErr
    IN  /\ n \in 3..Len(CreateSteps)
        /\ names = SubSeq(CreateSteps, 1, n)
        /\ \A i \in 1..(n - 1) : resp.calls[i].ret = NoErr
        /\ CallsTo("waitForAllNodesReady") # {}
             <=> /\ BackendCreateReturned(NoErr)
                 /\ extracted
                 /\ resp.plan.wait_for_nodes_ready = "true"
        /\ CallsTo("waitForAllNodesReady") # {} =>
             /\ resp.calls[6].kubeconfig = resp.calls[4].out
             /\ resp.calls[6].kubeconfig = backend[resp.name]
             /\ resp.calls[6].timeout = resp.calls[3].timeout
             /\ resp.calls[6].timeout = resp.plan.wait_for_ready
        /\ resp.state # NoState
             <=> /\ extracted
                 /\ \A i \in 1..n : resp.calls[i].ret = NoErr
        /\ resp.state # NoState <=> resp.diags = << >>

C24_Witness ==
  /\ resp.op = "Create"
  /\ Len(resp.calls) = 6
  /\ resp.calls[6].call = "waitForAllNodesReady"
  /\ resp.calls[6].ret = NoErr
  /\ resp.calls[6].timeout = MaxWait
  /\ resp.calls[3].timeout = MaxWait
  /\ resp.calls[6].kubeconfig = resp.calls[4].out
  /\ resp.state # NoState

====
